---- MODULE Spec2Model ----
(***************************************************************************)
(* PTExerciseApp backend: the Express handlers of backend/server.js over   *)
(* the SQLite table Exercises (backend/db/database.js, schema.sql), and    *)
(* the image lookup over the free-exercise-db dataset.                     *)
(*                                                                         *)
(* Every handler is an async function: one action of the model is one      *)
(* resumption of a handler, i.e. the awaited store operation completing    *)
(* followed by the synchronous code up to the next await.  Handlers of     *)
(* different requests interleave at their awaits.                          *)
(***************************************************************************)
EXTENDS Integers, Sequences, FiniteSets, TLC

VARIABLES store, nextId, req, toggleRun,
          exerciseDatabase, boot, img, fetchStarted, fetchFailed,
          hasFavorited, migration, pop, page

(* store            the rows of table Exercises (schema.sql), by id           *)
(* nextId           the id AUTOINCREMENT gives the next INSERT                *)
(* req              per request slot: the handler's position (pc), its input, *)
(*                  the state of its Database handle (conn: this.db null,     *)
(*                  failed to open, open, closed), its locals and its answer; *)
(*                  pre is the is_favorited a toggle's UPDATE found, err says *)
(*                  that an exception reached the handler's catch             *)
(* toggleRun        per id, the is_favorited values found by the latest (at   *)
(*                  most two) toggles since any other write to that record    *)
(* exerciseDatabase the cached image dataset of server.js                     *)
(* boot             the start-up call of loadExerciseDatabase                 *)
(* img              per lookup slot: position, query and answer               *)
(* fetchStarted     fetches of the dataset started so far                     *)
(* fetchFailed      calls of loadExerciseDatabase that ended in its catch     *)
(* hasFavorited     table Exercises has the column is_favorited               *)
(* migration        how the latest ALTER TABLE of migrateAddFavorited ended:  *)
(*                  "none" (never run), "added", "exists"                     *)
(* pop              the run of populate.js: its position, the items the API   *)
(*                  answered with (fetched), the list fetchExercisesFromAPI   *)
(*                  returned (exercises), the index of the one in work and    *)
(*                  the counters existingCount, inserted, skipped, failed     *)
(* page             frontend/public/app.js in one browser tab: its globals    *)
(*                  allExercises, currentPage, isSearchMode,                  *)
(*                  currentSearchQuery, currentTab; what the element          *)
(*                  #exercises shows (exercisesEl); and per slot a fetch of   *)
(*                  the page that is on its way, or answered and not yet      *)
(*                  delivered to the awaiting function (inflight)             *)

vars == <<store, nextId, req, toggleRun,
          exerciseDatabase, boot, img, fetchStarted, fetchFailed,
          hasFavorited, migration, pop, page>>

storeVars == <<store, nextId, req, toggleRun>>
imageVars == <<exerciseDatabase, boot, img, fetchStarted, fetchFailed>>
\* What no request handler of the server writes.
otherVars == <<hasFavorited, migration, pop, page>>

(* ----------------------------- bounds --------------------------------- *)

\* Largest id the AUTOINCREMENT key hands out in a run.
MaxId == 2

\* Request slots: handlers that can be in flight at the same time.
Slots == {"r1", "r2"}

\* Ids a request may name (an id above nextId - 1 is never in the store).
Ids == 1..MaxId

\* Exercise names a request may carry: two that differ in case only.
Names == {"a", "A"}

(* --------------------------- JS / SQL values --------------------------- *)

UNDEF == "undefined"
NULL == "null"
ARRAY == "array"
TS == "CURRENT_TIMESTAMP"

\* JS truthiness of the values the model uses.
JsTrue == "js:true"
JsFalse == "js:false"
Falsy(v) == v \in {UNDEF, NULL, "", JsFalse}

\* String.prototype.toLowerCase / SQLite NOCASE folding on one character.
LowerChar(c) ==
  CASE c = "A" -> "a"
    [] c = "B" -> "b"
    [] c = "C" -> "c"
    [] c = "L" -> "l"
    [] c = "P" -> "p"
    [] OTHER -> c

(* ------------------------------ the table ------------------------------ *)

Columns == {"exercise_name", "exercise_type", "muscle", "equipment",
            "difficulty", "instructions", "is_favorited", "last_updated",
            "created_timestamp"}

\* An INSERT that binds a truthy is_favorited as the number 2 instead of
\* coercing it to 1.
NewRowUncoerced(body) ==
  [exercise_name |-> body.name,
   exercise_type |-> body.type,
   muscle |-> body.muscle,
   equipment |-> body.equipment,
   difficulty |-> body.difficulty,
   instructions |-> body.instructions,
   is_favorited |-> IF Falsy(body.is_favorited) THEN 0 ELSE 2,
   last_updated |-> NULL,
   created_timestamp |-> TS]

\* INSERT of createExercise: the seven bound columns, last_updated DEFAULT NULL,
\* created_timestamp DEFAULT CURRENT_TIMESTAMP.
NewRow(body) ==
  [exercise_name |-> body.name,
   exercise_type |-> body.type,
   muscle |-> body.muscle,
   equipment |-> body.equipment,
   difficulty |-> body.difficulty,
   instructions |-> body.instructions,
   is_favorited |-> IF Falsy(body.is_favorited) THEN 0 ELSE 1,
   last_updated |-> NULL,
   created_timestamp |-> TS]

\* CASE WHEN is_favorited = 1 THEN 0 ELSE 1 END
ToggledAlwaysOn(v) == 1

ToggledValue(v) == IF v = 1 THEN 0 ELSE 1

\* SELECT id FROM Exercises WHERE exercise_name = ? LIMIT 1 (BINARY collation)
ExistsIgnoringCase(s, name) ==
  \E i \in DOMAIN s : LowerChar(s[i].exercise_name) = LowerChar(name)

exerciseExists(s, name) == \E i \in DOMAIN s : s[i].exercise_name = name

\* A query result of at most one row: <<>> is JS undefined, <<row>> a row.
NoRow == <<>>

\* SELECT * FROM Exercises WHERE id = ?  (undefined when no row)
RowOf(s, id) == [c \in Columns \cup {"id"} |-> IF c = "id" THEN id ELSE s[id][c]]

getExerciseById(s, id) == IF id \in DOMAIN s THEN <<RowOf(s, id)>> ELSE NoRow

\* exercise_name LIKE '%term%': ASCII case-insensitive containment; names and
\* terms of the model are one character long, where it is equality up to case.
NameLike(name, term) == LowerChar(name) = LowerChar(term)

searchExercises(s, term) == {i \in DOMAIN s : NameLike(s[i].exercise_name, term)}

\* An allow-list that lets every column of the table through.
allowedFieldsAll == Columns \cup {"id"}

\* updateExercise: the SET list built from the allow-listed keys of the body.
allowedFields == {"exercise_name", "exercise_type", "muscle", "equipment",
                  "difficulty", "instructions", "is_favorited"}

\* A SET list of every body key that names a column.
UpdateFieldsAnyColumn(updates) == DOMAIN updates \cap Columns

UpdateFields(updates) == DOMAIN updates \cap allowedFields

UpdatedRow(row, updates) ==
  [c \in Columns |->
     IF c = "last_updated" THEN TS
     ELSE IF c \in UpdateFields(updates)
          THEN IF c = "is_favorited"
               THEN (IF Falsy(updates[c]) THEN 0 ELSE 1)
               ELSE updates[c]
          ELSE row[c]]

\* Removing a row (DELETE FROM Exercises WHERE id = ?).
RemoveRow(s, id) == [i \in DOMAIN s \ {id} |-> s[i]]

(* ----------------------------- request input --------------------------- *)

\* A request without a body, and a body without keys ({}).
NoBody == [k \in {} |-> ""]

Required == {"name", "type", "muscle", "equipment", "difficulty", "instructions"}

\* if (!name || !type || !muscle || !equipment || !difficulty || !instructions)
MissingNameOnly(body) == Falsy(body.name)

MissingRequired(body) == \E f \in Required : Falsy(body[f])

ValidBody(n, fav) ==
  [name |-> n, type |-> "t", muscle |-> "m", equipment |-> "e",
   difficulty |-> "d", instructions |-> "i", is_favorited |-> fav]

\* POST bodies: the complete ones, and each required field missing or empty.
CreateBodies ==
  {ValidBody(n, UNDEF) : n \in Names}
  \cup {[ValidBody("a", UNDEF) EXCEPT ![f] = d] : f \in Required, d \in {UNDEF, ""}}

\* POST bodies with and without is_favorited (one name: a second record of
\* it comes from a create after a delete, or from two racing creates).
FavCreateBodies == {ValidBody("a", UNDEF), ValidBody("a", JsTrue)}

\* POST bodies: a complete one and one that fails validation.
ConnCreateBodies == {ValidBody("a", UNDEF), [ValidBody("a", UNDEF) EXCEPT !.muscle = ""]}

\* PUT bodies that set is_favorited.
FavUpdateBodies == {[is_favorited |-> JsTrue], [is_favorited |-> JsFalse]}

\* PUT bodies that rename the record.
NameUpdateBodies == {[exercise_name |-> n] : n \in Names}

\* A body that carries id and created_timestamp next to an allow-listed key.
ForgedBody == [muscle |-> "m2", id |-> 2, created_timestamp |-> "forged"]

\* PUT bodies: no key, the edit form's key (name, not allow-listed), one
\* allow-listed key.
ConnUpdateBodies == {NoBody, [name |-> "a"], ForgedBody}

\* The body saveExercise of the page sends: the form's six keys.
EditFormBody ==
  [name |-> "A", type |-> "t2", muscle |-> "m2", equipment |-> "e",
   difficulty |-> "d", instructions |-> "i2"]

\* PUT bodies: no key, keys outside the allow-list only, the edit form's,
\* and column names, one of them outside the allow-list, one with a value
\* to coerce.
UpdUpdateBodies ==
  {NoBody, [name |-> "A", type |-> "t2"], EditFormBody,
   [exercise_name |-> "A", is_favorited |-> JsTrue, created_timestamp |-> "forged"]}

\* POST bodies: a favourite with a muscle the stats endpoint counts, and a
\* record whose name sorts before it.
StatsCreateBodies ==
  {[ValidBody("a", JsTrue) EXCEPT !.muscle = "biceps"], ValidBody("A", UNDEF)}

UpdCreateBodies == {ValidBody("a", UNDEF)}

\* The ids the updates and deletes of these runs name.
UpdIds == {1, 2}

\* ?query= values: absent, empty, blank, a term, a repeated key (an array).
SearchQueries == {UNDEF, "", " ", "a", ARRAY}

\* String.prototype.trim on the query strings above.
TrimQuery(q) == IF q = " " THEN "" ELSE q

(* ----------------------------- request state -------------------------- *)

Idle ==
  [kind |-> "idle", pc |-> "idle", id |-> 0, body |-> NoBody, query |-> UNDEF,
   conn |-> NULL, changes |-> 0, row |-> NoRow, pre |-> -1, err |-> FALSE,
   status |-> 0, out |-> <<>>]

\* const db = new Database(): this.db = null until connect().
Fresh(kind, id, body, query) ==
  [Idle EXCEPT !.kind = kind, !.id = id, !.body = body, !.query = query]

\* The transformed record of a 200 response.
Transformed(row) ==
  [id |-> row.id,
   name |-> row.exercise_name,
   type |-> row.exercise_type,
   muscle |-> row.muscle,
   equipment |-> row.equipment,
   difficulty |-> row.difficulty,
   instructions |-> row.instructions,
   is_favorited |-> (row.is_favorited = 1)]

\* res.status(status).json(out): the handler is over, its locals are gone.
Respond(q, status, out) ==
  [q EXCEPT !.pc = "done", !.status = status, !.out = <<out>>,
            !.row = NoRow, !.changes = 0]

\* An exception inside try: control moves to the catch block, which starts
\* with await db.close().
Throw(q) == [q EXCEPT !.pc = "catch", !.err = TRUE]

\* result.changes === 0
NotFound(changes) == changes = 0

(* ------------------------- connection lifecycle ------------------------ *)

\* Request r is suspended at the await of the step named pc.
At(r, kind, pc) == req[r].kind = kind /\ req[r].pc = pc

QueryPcs == {"toggle", "reread", "exists", "insert", "update", "delete",
             "get", "search", "favorites", "total", "favcount", "muscle"}

\* The first store call a handler awaits after connect().
FirstQuery(kind) ==
  CASE kind = "toggle" -> "toggle"
    [] kind = "create" -> "exists"
    [] kind = "update" -> "update"
    [] kind = "delete" -> "delete"
    [] kind = "get" -> "get"
    [] kind = "search" -> "search"
    [] kind = "favorites" -> "favorites"
    [] kind = "stats" -> "total"

\* await db.connect() resolves: the handle is open, the first query is issued.
Connect(r) ==
  /\ req[r].pc = "connect"
  /\ req' = [req EXCEPT ![r].conn = "open", ![r].pc = FirstQuery(req[r].kind)]
  /\ UNCHANGED <<store, nextId, toggleRun, imageVars, otherVars>>

\* await db.connect() rejects: this.db holds a handle that never opened.
ConnectFail(r) ==
  /\ req[r].pc = "connect"
  /\ req' = [req EXCEPT ![r] = Throw([req[r] EXCEPT !.conn = "failed"])]
  /\ UNCHANGED <<store, nextId, toggleRun, imageVars, otherVars>>

\* An awaited query rejects (the statement's callback got err): nothing is
\* written, control moves to catch.  This is the one way on for a statement
\* that names is_favorited while the table lacks the column.  updateExercise issues no statement for
\* a body without allow-listed key.
QueryFail(r) ==
  /\ req[r].pc \in QueryPcs
  /\ ~(req[r].pc = "update" /\ UpdateFields(req[r].body) = {})
  /\ req' = [req EXCEPT ![r] = Throw(req[r])]
  /\ UNCHANGED <<store, nextId, toggleRun, imageVars, otherVars>>

\* Database.close() by the state of this.db: null -> this.db.close throws a
\* TypeError inside the promise executor (rejects); an open handle closes;
\* a handle closed before answers with an error (rejects); a handle that never
\* opened may answer either way.
CloseResolves(conn) ==
  CASE conn = "open" -> {TRUE}
    [] conn = "closed" -> {FALSE}
    [] conn = NULL -> {FALSE}
    [] conn = "failed" -> {TRUE, FALSE}

Closed(q) == [q EXCEPT !.conn = IF q.conn = "open" THEN "closed" ELSE q.conn]

CatchWithoutClose(r) ==
  /\ req[r].pc = "catch"
  /\ req' = [req EXCEPT ![r] = Respond(req[r], 500, [error |-> "message"])]
  /\ UNCHANGED <<store, nextId, toggleRun, imageVars, otherVars>>

\* The catch block: await db.close(); res.status(500).json(...).  Only the
\* toggle handler wraps the close in its own try/catch; in the other handlers a
\* rejecting close leaves the async handler rejected and the request unanswered.
CatchClose(r) ==
  /\ req[r].pc = "catch"
  /\ \E ok \in CloseResolves(req[r].conn) :
       req' = [req EXCEPT ![r] =
                 IF ok \/ req[r].kind = "toggle"
                 THEN Respond(Closed(req[r]), 500, [error |-> "message"])
                 ELSE [Closed(req[r]) EXCEPT !.pc = "crashed"]]
  /\ UNCHANGED <<store, nextId, toggleRun, imageVars, otherVars>>

\* The handler has returned (or died): the slot serves the next request.
Finish(r) ==
  /\ req[r].pc \in {"done", "crashed"}
  /\ req' = [req EXCEPT ![r] = Idle]
  /\ UNCHANGED <<store, nextId, toggleRun, imageVars, otherVars>>

(* ------------------- PATCH /api/exercises/:id/favorite ----------------- *)

ToggleStart(r, id) ==
  /\ req[r].pc = "idle"
  /\ req' = [req EXCEPT ![r] = [Fresh("toggle", id, NoBody, UNDEF) EXCEPT !.pc = "connect"]]
  /\ UNCHANGED <<store, nextId, toggleRun, imageVars, otherVars>>

toggleFavoriteUpsert(s, id) ==
  IF id \in DOMAIN s
  THEN [s EXCEPT ![id].is_favorited = ToggledValue(s[id].is_favorited),
                 ![id].last_updated = TS]
  ELSE [i \in DOMAIN s \cup {id} |->
          IF i = id THEN [NewRow(ValidBody("a", JsTrue)) EXCEPT !.last_updated = TS]
          ELSE s[i]]

\* An UPDATE without its WHERE clause: every row is inverted.
toggleFavoriteEveryRow(s, id) ==
  [i \in DOMAIN s |-> [s[i] EXCEPT !.is_favorited = ToggledValue(@),
                                    !.last_updated = TS]]

\* An inversion that leaves last_updated alone.
toggleFavoriteNoStamp(s, id) ==
  IF id \in DOMAIN s
  THEN [s EXCEPT ![id].is_favorited = ToggledValue(s[id].is_favorited)]
  ELSE s

\* Database.toggleFavorite: the UPDATE of the row with that id, if any.
toggleFavorite(s, id) ==
  IF id \in DOMAIN s
  THEN [s EXCEPT ![id].is_favorited = ToggledValue(s[id].is_favorited),
                 ![id].last_updated = TS]
  ELSE s

\* toggleFavorite resolves with {changes}; 0 changes -> close and 404,
\* otherwise getExerciseById is issued.
ToggleRun(r) ==
  /\ At(r, "toggle", "toggle")
  /\ hasFavorited
  /\ LET id == req[r].id
         changes == IF id \in DOMAIN store THEN 1 ELSE 0
     IN /\ store' = toggleFavorite(store, id)
        /\ toggleRun' = IF changes = 1
                        THEN [toggleRun EXCEPT ![id] =
                                IF Len(@) = 2 THEN <<@[2], store[id].is_favorited>>
                                ELSE Append(@, store[id].is_favorited)]
                        ELSE toggleRun
        /\ req' = [req EXCEPT ![r].changes = changes,
                              ![r].pre = IF changes = 1 THEN store[id].is_favorited ELSE -1,
                              ![r].pc = IF NotFound(changes) THEN "close404" ELSE "reread"]
  /\ UNCHANGED <<nextId, imageVars, otherVars>>

\* getExerciseById resolves; !exercise -> close and 404, else close and 200.
ToggleReread(r) ==
  /\ At(r, "toggle", "reread")
  /\ LET row == getExerciseById(store, req[r].id)
     IN req' = [req EXCEPT ![r].row = row,
                           ![r].pc = IF row = NoRow THEN "close404" ELSE "close200"]
  /\ UNCHANGED <<store, nextId, toggleRun, imageVars, otherVars>>

\* await db.close() resolves on the 404 paths.
ToggleClose404(r) ==
  /\ At(r, "toggle", "close404")
  /\ req' = [req EXCEPT ![r] = Respond(Closed(req[r]), 404, [error |-> "Exercise not found"])]
  /\ UNCHANGED <<store, nextId, toggleRun, imageVars, otherVars>>

\* await db.close() resolves; the transformed row is sent.
ToggleClose200(r) ==
  /\ At(r, "toggle", "close200")
  /\ req' = [req EXCEPT ![r] = Respond(Closed(req[r]), 200, Transformed(req[r].row[1]))]
  /\ UNCHANGED <<store, nextId, toggleRun, imageVars, otherVars>>

(* --------------------------- POST /api/exercises ----------------------- *)

\* Creates in flight that have passed validation (each may still insert).
CreatesInFlight == Cardinality({r \in Slots : req[r].kind = "create" /\ req[r].pc \in {"connect", "exists", "insert"}})

\* The handler up to its first await: missing field -> 400 at once (no
\* connect), otherwise db.connect() is awaited.
CreateStart(r, body) ==
  /\ req[r].pc = "idle"
  /\ nextId + CreatesInFlight <= MaxId
  /\ req' = [req EXCEPT ![r] =
               IF MissingRequired(body)
               THEN Respond(Fresh("create", 0, body, UNDEF), 400, [error |-> "Missing required fields"])
               ELSE [Fresh("create", 0, body, UNDEF) EXCEPT !.pc = "connect"]]
  /\ UNCHANGED <<store, nextId, toggleRun, imageVars, otherVars>>

\* exerciseExists resolves: exists -> close and 409, else createExercise is issued.
CreateExists(r) ==
  /\ At(r, "create", "exists")
  /\ req' = [req EXCEPT ![r].pc = IF exerciseExists(store, req[r].body.name)
                                  THEN "close409" ELSE "insert"]
  /\ UNCHANGED <<store, nextId, toggleRun, imageVars, otherVars>>

\* The INSERT of createExercise with is_favorited: is_favorited || false;
\* AUTOINCREMENT gives the row the next id, never one used before.
createExercise(s, id, body) ==
  [i \in DOMAIN s \cup {id} |-> IF i = id THEN NewRow(body) ELSE s[i]]

CreateInsert(r) ==
  /\ At(r, "create", "insert")
  /\ hasFavorited
  /\ nextId <= MaxId
  /\ store' = createExercise(store, nextId, req[r].body)
  /\ nextId' = nextId + 1
  /\ req' = [req EXCEPT ![r].id = nextId, ![r].pc = "close201"]
  /\ UNCHANGED <<toggleRun, imageVars, otherVars>>

CreateClose409(r) ==
  /\ At(r, "create", "close409")
  /\ req' = [req EXCEPT ![r] = Respond(Closed(req[r]), 409, [error |-> "Exercise with this name already exists"])]
  /\ UNCHANGED <<store, nextId, toggleRun, imageVars, otherVars>>

CreateClose201(r) ==
  /\ At(r, "create", "close201")
  /\ req' = [req EXCEPT ![r] = Respond(Closed(req[r]), 201, [id |-> req[r].id, name |-> req[r].body.name])]
  /\ UNCHANGED <<store, nextId, toggleRun, imageVars, otherVars>>

(* -------------------------- PUT /api/exercises/:id --------------------- *)

UpdateStart(r, id, body) ==
  /\ req[r].pc = "idle"
  /\ req' = [req EXCEPT ![r] = [Fresh("update", id, body, UNDEF) EXCEPT !.pc = "connect"]]
  /\ UNCHANGED <<store, nextId, toggleRun, imageVars, otherVars>>

\* Database.updateExercise: UPDATE Exercises SET <the allow-listed keys>,
\* last_updated = CURRENT_TIMESTAMP WHERE id = ?, on the row with that id, if
\* any (a key id in the SET list would give the row that id).
updateExercise(s, id, updates) ==
  IF id \in DOMAIN s
  THEN LET newId == IF "id" \in UpdateFields(updates) THEN updates.id ELSE id
       IN [i \in (DOMAIN s \ {id}) \cup {newId} |->
             IF i = newId THEN UpdatedRow(s[id], updates) ELSE s[i]]
  ELSE s

\* updateExercise settles: no allow-listed key -> it threw 'No valid fields to
\* update'; 0 changes -> close and 404; otherwise getExerciseById is issued.
UpdateRun(r) ==
  /\ At(r, "update", "update")
  /\ "is_favorited" \in UpdateFields(req[r].body) => hasFavorited
  /\ LET id == req[r].id
         changes == IF id \in DOMAIN store THEN 1 ELSE 0
     IN IF UpdateFields(req[r].body) = {}
        THEN /\ req' = [req EXCEPT ![r] = Throw(req[r])]
             /\ UNCHANGED <<store, toggleRun>>
        ELSE /\ store' = updateExercise(store, id, req[r].body)
             /\ toggleRun' = IF changes = 1 THEN [toggleRun EXCEPT ![id] = <<>>] ELSE toggleRun
             /\ req' = [req EXCEPT ![r].changes = changes,
                                   ![r].pc = IF NotFound(changes) THEN "close404" ELSE "reread"]
  /\ UNCHANGED <<nextId, imageVars, otherVars>>

\* getExerciseById resolves (its result is not tested); db.close() is awaited.
UpdateReread(r) ==
  /\ At(r, "update", "reread")
  /\ req' = [req EXCEPT ![r].row = getExerciseById(store, req[r].id), ![r].pc = "close200"]
  /\ UNCHANGED <<store, nextId, toggleRun, imageVars, otherVars>>

UpdateClose404(r) ==
  /\ At(r, "update", "close404")
  /\ req' = [req EXCEPT ![r] = Respond(Closed(req[r]), 404, [error |-> "Exercise not found"])]
  /\ UNCHANGED <<store, nextId, toggleRun, imageVars, otherVars>>

\* db.close() resolves; building the response reads updatedExercise.id, a
\* TypeError when the re-read found no row: control moves to catch.
UpdateClose200(r) ==
  /\ At(r, "update", "close200")
  /\ req' = [req EXCEPT ![r] =
               IF req[r].row = NoRow
               THEN Throw(Closed(req[r]))
               ELSE Respond(Closed(req[r]), 200, Transformed(req[r].row[1]))]
  /\ UNCHANGED <<store, nextId, toggleRun, imageVars, otherVars>>

(* ------------------------ DELETE /api/exercises/:id -------------------- *)

DeleteStart(r, id) ==
  /\ req[r].pc = "idle"
  /\ req' = [req EXCEPT ![r] = [Fresh("delete", id, NoBody, UNDEF) EXCEPT !.pc = "connect"]]
  /\ UNCHANGED <<store, nextId, toggleRun, imageVars, otherVars>>

\* A DELETE without its WHERE clause.
deleteEveryRow(s, id) == IF id \in DOMAIN s THEN <<>> ELSE s

deleteExercise(s, id) == IF id \in DOMAIN s THEN RemoveRow(s, id) ELSE s

\* deleteExercise resolves with {changes}; db.close() is awaited.
DeleteRun(r) ==
  /\ At(r, "delete", "delete")
  /\ LET id == req[r].id
         changes == IF id \in DOMAIN store THEN 1 ELSE 0
     IN /\ store' = deleteExercise(store, id)
        /\ toggleRun' = IF changes = 1 THEN [toggleRun EXCEPT ![id] = <<>>] ELSE toggleRun
        /\ req' = [req EXCEPT ![r].changes = changes, ![r].pc = "closedel"]
  /\ UNCHANGED <<nextId, imageVars, otherVars>>

DeleteClose(r) ==
  /\ At(r, "delete", "closedel")
  /\ req' = [req EXCEPT ![r] =
               IF NotFound(req[r].changes)
               THEN Respond(Closed(req[r]), 404, [error |-> "Exercise not found"])
               ELSE Respond(Closed(req[r]), 200, [message |-> "Exercise deleted successfully"])]
  /\ UNCHANGED <<store, nextId, toggleRun, imageVars, otherVars>>

(* -------------------------- GET /api/exercises/:id --------------------- *)

GetStart(r, id) ==
  /\ req[r].pc = "idle"
  /\ req' = [req EXCEPT ![r] = [Fresh("get", id, NoBody, UNDEF) EXCEPT !.pc = "connect"]]
  /\ UNCHANGED <<store, nextId, toggleRun, imageVars, otherVars>>

GetRun(r) ==
  /\ At(r, "get", "get")
  /\ req' = [req EXCEPT ![r].row = getExerciseById(store, req[r].id), ![r].pc = "closeget"]
  /\ UNCHANGED <<store, nextId, toggleRun, imageVars, otherVars>>

GetClose(r) ==
  /\ At(r, "get", "closeget")
  /\ req' = [req EXCEPT ![r] =
               IF req[r].row = NoRow
               THEN Respond(Closed(req[r]), 404, [error |-> "Exercise not found"])
               ELSE Respond(Closed(req[r]), 200, Transformed(req[r].row[1]))]
  /\ UNCHANGED <<store, nextId, toggleRun, imageVars, otherVars>>

(* ------------------------ GET /api/exercises/search -------------------- *)

\* The handler up to its first await: a repeated ?query= key is an array, on
\* which query.trim throws; a missing or blank query is answered 400.
SearchStart(r, q) ==
  /\ req[r].pc = "idle"
  /\ req' = [req EXCEPT ![r] =
               IF q = ARRAY
               THEN Throw(Fresh("search", 0, NoBody, q))
               ELSE IF Falsy(q) \/ TrimQuery(q) = ""
               THEN Respond(Fresh("search", 0, NoBody, q), 400, [error |-> "Query parameter is required"])
               ELSE [Fresh("search", 0, NoBody, q) EXCEPT !.pc = "connect"]]
  /\ UNCHANGED <<store, nextId, toggleRun, imageVars, otherVars>>

\* searchExercises resolves with the matching rows (their order, by name, is
\* not kept: the rows are held as a set).
SearchRun(r) ==
  /\ At(r, "search", "search")
  /\ req' = [req EXCEPT ![r].row = <<{RowOf(store, i) : i \in searchExercises(store, req[r].query)}>>,
                        ![r].pc = "closesearch"]
  /\ UNCHANGED <<store, nextId, toggleRun, imageVars, otherVars>>

SearchClose(r) ==
  /\ At(r, "search", "closesearch")
  /\ req' = [req EXCEPT ![r] = Respond(Closed(req[r]), 200, {Transformed(x) : x \in req[r].row[1]})]
  /\ UNCHANGED <<store, nextId, toggleRun, imageVars, otherVars>>

(* ---------------------- GET /api/exercises/favorites ------------------- *)

FavoritesStart(r) ==
  /\ req[r].pc = "idle"
  /\ req' = [req EXCEPT ![r] = [Fresh("favorites", 0, NoBody, UNDEF) EXCEPT !.pc = "connect"]]
  /\ UNCHANGED <<store, nextId, toggleRun, imageVars, otherVars>>

\* The code unit of a one-character name (BINARY collation compares bytes).
CodePoint(n) ==
  CASE n = "A" -> 65
    [] n = "a" -> 97
    [] n = "b" -> 98

\* Rows in id order, whatever their names.
getFavoritesById(s) ==
  LET ids == {i \in DOMAIN s : s[i].is_favorited = 1}
      n == Cardinality(ids)
  IN {[k \in 1..n |-> RowOf(s, f[k])] :
        f \in {g \in [1..n -> ids] : \A j, k \in 1..n : j < k => g[j] < g[k]}}

\* SELECT * FROM Exercises WHERE is_favorited = 1 ORDER BY exercise_name ASC:
\* the result lists the build may produce (rows of one name in any order).
getFavorites(s) ==
  LET ids == {i \in DOMAIN s : s[i].is_favorited = 1}
      n == Cardinality(ids)
  IN {[k \in 1..n |-> RowOf(s, f[k])] :
        f \in {g \in [1..n -> ids] :
                 /\ \A j, k \in 1..n : j # k => g[j] # g[k]
                 /\ \A k \in 1..(n - 1) :
                      CodePoint(s[g[k]].exercise_name) <= CodePoint(s[g[k + 1]].exercise_name)}}

FavoritesRun(r) ==
  /\ At(r, "favorites", "favorites")
  /\ hasFavorited
  /\ \E rows \in getFavorites(store) :
       req' = [req EXCEPT ![r].row = <<rows>>, ![r].pc = "closefavorites"]
  /\ UNCHANGED <<store, nextId, toggleRun, imageVars, otherVars>>

\* favorites.map(...): every entry is reported with is_favorited: true.
TransformedFavorite(row) == [Transformed(row) EXCEPT !.is_favorited = TRUE]

FavoritesClose(r) ==
  /\ At(r, "favorites", "closefavorites")
  /\ req' = [req EXCEPT ![r] =
               Respond(Closed(req[r]), 200,
                       [k \in 1..Len(req[r].row[1]) |-> TransformedFavorite(req[r].row[1][k])])]
  /\ UNCHANGED <<store, nextId, toggleRun, imageVars, otherVars>>

(* ----------------------------- GET /api/db/stats ----------------------- *)

muscles == <<"biceps", "triceps", "chest", "back", "shoulders", "legs",
             "abdominals", "calves", "glutes", "hamstrings", "quadriceps">>

\* getExerciseCount(), getExerciseCount({is_favorited: true}),
\* getExerciseCount({muscle}).
CountAll(s) == Cardinality(DOMAIN s)
CountFavorited(s) == Cardinality({i \in DOMAIN s : s[i].is_favorited = 1})
CountMuscle(s, m) == Cardinality({i \in DOMAIN s : s[i].muscle = m})

StatsStart(r) ==
  /\ req[r].pc = "idle"
  /\ req' = [req EXCEPT ![r] = [Fresh("stats", 0, NoBody, UNDEF) EXCEPT !.pc = "connect"]]
  /\ UNCHANGED <<store, nextId, toggleRun, imageVars, otherVars>>

\* const total = await db.getExerciseCount(): the handler's locals are held
\* in row (k: the muscle the loop is at).
StatsTotal(r) ==
  /\ At(r, "stats", "total")
  /\ req' = [req EXCEPT ![r].row = <<[total |-> CountAll(store), favorites |-> 0,
                                      byMuscle |-> <<>>, k |-> 0]>>,
                        ![r].pc = "favcount"]
  /\ UNCHANGED <<store, nextId, toggleRun, imageVars, otherVars>>

StatsFavorites(r) ==
  /\ At(r, "stats", "favcount")
  /\ hasFavorited
  /\ req' = [req EXCEPT ![r].row = <<[req[r].row[1] EXCEPT !.favorites = CountFavorited(store),
                                                           !.k = 1]>>,
                        ![r].pc = "muscle"]
  /\ UNCHANGED <<store, nextId, toggleRun, imageVars, otherVars>>

\* One turn of the loop over muscles: a count above 0 is recorded.
StatsMuscle(r) ==
  /\ At(r, "stats", "muscle")
  /\ LET loc == req[r].row[1]
         m == muscles[loc.k]
         count == CountMuscle(store, m)
         by == IF count > 0
               THEN [x \in DOMAIN loc.byMuscle \cup {m} |->
                       IF x = m THEN count ELSE loc.byMuscle[x]]
               ELSE loc.byMuscle
     IN req' = [req EXCEPT ![r].row = <<[loc EXCEPT !.byMuscle = by,
                                                    !.k = IF loc.k = Len(muscles) THEN loc.k ELSE loc.k + 1]>>,
                           ![r].pc = IF loc.k = Len(muscles) THEN "closestats" ELSE "muscle"]
  /\ UNCHANGED <<store, nextId, toggleRun, imageVars, otherVars>>

StatsClose(r) ==
  /\ At(r, "stats", "closestats")
  /\ req' = [req EXCEPT ![r] =
               Respond(Closed(req[r]), 200,
                       [total |-> req[r].row[1].total,
                        favorites |-> req[r].row[1].favorites,
                        byMuscle |-> req[r].row[1].byMuscle])]
  /\ UNCHANGED <<store, nextId, toggleRun, imageVars, otherVars>>

(* ------------------- the image reference dataset (server.js) ----------- *)

\* Lookups in flight at the same time.
ImgSlots == {"g1", "g2"}

\* Fetches of the dataset a run may start.
MaxFetches == 3

\* Text is a sequence of one-character strings.
Lower(s) == [i \in 1..Len(s) |-> LowerChar(s[i])]

\* .replace(/[-_]/g, ' ')
ReplaceSeparators(s) == [i \in 1..Len(s) |-> IF s[i] \in {"-", "_"} THEN " " ELSE s[i]]

\* \s of a JS regular expression, on the characters of the model.
IsSpace(c) == c \in {" ", "\t"}

RECURSIVE DropLeadingSpace(_)
DropLeadingSpace(s) ==
  IF s # <<>> /\ IsSpace(s[1]) THEN DropLeadingSpace(Tail(s)) ELSE s

\* .replace(/\s+/g, ' ')
RECURSIVE CollapseWhitespace(_)
CollapseWhitespace(s) ==
  IF s = <<>> THEN <<>>
  ELSE IF IsSpace(s[1]) THEN <<" ">> \o CollapseWhitespace(DropLeadingSpace(s))
  ELSE <<s[1]>> \o CollapseWhitespace(Tail(s))

RECURSIVE DropTrailingSpace(_)
DropTrailingSpace(s) ==
  IF s # <<>> /\ IsSpace(s[Len(s)])
  THEN DropTrailingSpace(SubSeq(s, 1, Len(s) - 1)) ELSE s

\* Leading whitespace only.
TrimStartOnly(s) == DropLeadingSpace(s)

\* .trim()
Trim(s) == DropTrailingSpace(DropLeadingSpace(s))

\* The whitespace collapsed before the separators are replaced.
NormalizeCollapseFirst(s) == Trim(ReplaceSeparators(CollapseWhitespace(Lower(s))))

\* normalizedSearchName / normalizedExName
Normalize(s) == Trim(CollapseWhitespace(ReplaceSeparators(Lower(s))))

\* A containment test that an empty needle fails.
IncludesNonEmpty(hay, needle) ==
  /\ Len(needle) > 0
  /\ \E k \in 0..(Len(hay) - Len(needle)) : SubSeq(hay, k + 1, k + Len(needle)) = needle

\* String.prototype.includes
Includes(hay, needle) ==
  \E k \in 0..(Len(hay) - Len(needle)) : SubSeq(hay, k + 1, k + Len(needle)) = needle

\* An entry without a text name, and one without an images list.
NoName == <<UNDEF>>
NoImages == <<UNDEF>>

\* Containment of the query in the name only.
CandidateOneWay(ex, q) == Includes(Normalize(ex.name), Normalize(q))

\* The callback of exerciseDatabase.find on an entry that has a name.
Candidate(ex, q) ==
  \/ Includes(Normalize(ex.name), Normalize(q))
  \/ Includes(Normalize(q), Normalize(ex.name))

\* A scan that keeps the last candidate.
RECURSIVE FindLastFrom(_, _, _)
FindLastFrom(list, q, i) ==
  IF i > Len(list) THEN 0
  ELSE IF list[i].name = NoName THEN -1
  ELSE LET rest == FindLastFrom(list, q, i + 1)
       IN IF rest # 0 THEN rest ELSE IF Candidate(list[i], q) THEN i ELSE 0

\* A scan that passes over candidates without images.
RECURSIVE FindWithImagesFrom(_, _, _)
FindWithImagesFrom(list, q, i) ==
  IF i > Len(list) THEN 0
  ELSE IF list[i].name = NoName THEN -1
  ELSE IF Candidate(list[i], q) /\ list[i].images # NoImages /\ Len(list[i].images) > 0
  THEN i
  ELSE FindWithImagesFrom(list, q, i + 1)

\* exerciseDatabase.find(...): 0 when no entry matches (undefined), the index
\* of the first candidate, -1 when the callback throws on a nameless entry
\* that the scan reaches.
RECURSIVE FindFrom(_, _, _)
FindFrom(list, q, i) ==
  IF i > Len(list) THEN 0
  ELSE IF list[i].name = NoName THEN -1
  ELSE IF Candidate(list[i], q) THEN i
  ELSE FindFrom(list, q, i + 1)

\* The value of the variable exerciseDatabase: null, or what response.data
\* was: a list of entries, an object that is no list, an empty text.
Unloaded == [tag |-> "null", val |-> <<>>]
ListData(list) == [tag |-> "list", val |-> list]
ObjectData == [tag |-> "object", val |-> <<>>]
EmptyText == [tag |-> "text", val |-> <<>>]

\* !exerciseDatabase
Truthy(db) == db.tag \in {"list", "object"}

Catalog1 ==
  << [name |-> <<"A", "-", "b">>, images |-> <<"Ab/0.jpg", "Ab/1.jpg">>],
     [name |-> <<"b">>, images |-> <<>>] >>

Catalog2 ==
  << [name |-> <<"c">>, images |-> NoImages],
     [name |-> NoName, images |-> <<"X/0.jpg">>],
     [name |-> <<"b">>, images |-> <<"B/0.jpg">>] >>

\* What a fetch may deliver as response.data (Unloaded: the JSON value null).
FetchData == {ListData(Catalog1), ListData(Catalog2), ListData(<<>>),
              ObjectData, EmptyText, Unloaded}

ImgQueries == {<<"a", "_", "B">>, <<"b">>, <<"c">>, <<"-">>}

ImageUrlNoSlash(fragment) ==
  "https://raw.githubusercontent.com/yuhonas/free-exercise-db/main/exercises" \o fragment

ImageUrl(fragment) ==
  "https://raw.githubusercontent.com/yuhonas/free-exercise-db/main/exercises/" \o fragment

NullImages == <<NULL>>
NotFoundBody == [found |-> FALSE, images |-> NullImages]

ImgIdle == [pc |-> "idle", query |-> <<>>, status |-> 0, out |-> NotFoundBody]

\* The handler from `if (!exerciseDatabase) return ...` to its end, try/catch
\* included: every path answers with res.json (status 200).
ImgAnswerNoCatch(db, q) ==
  LET notFound == [pc |-> "done", query |-> q, status |-> 200, out |-> NotFoundBody]
      crashed == [pc |-> "crashed", query |-> q, status |-> 0, out |-> NotFoundBody]
  IN IF ~Truthy(db) THEN notFound
     ELSE IF db.tag # "list" THEN crashed
     ELSE LET m == FindFrom(db.val, q, 1)
          IN IF m = -1 THEN crashed
             ELSE IF m # 0 /\ db.val[m].images # NoImages /\ Len(db.val[m].images) > 0
             THEN [pc |-> "done", query |-> q, status |-> 200,
                   out |-> [found |-> TRUE,
                            images |-> [k \in 1..Len(db.val[m].images) |->
                                          ImageUrl(db.val[m].images[k])]]]
             ELSE notFound

ImgAnswer(db, q) ==
  LET notFound == [pc |-> "done", query |-> q, status |-> 200, out |-> NotFoundBody]
  IN IF ~Truthy(db) THEN notFound
     ELSE IF db.tag # "list" THEN notFound
     ELSE LET m == FindFrom(db.val, q, 1)
          IN IF m = -1 THEN notFound
             ELSE IF m # 0 /\ db.val[m].images # NoImages /\ Len(db.val[m].images) > 0
             THEN [pc |-> "done", query |-> q, status |-> 200,
                   out |-> [found |-> TRUE,
                            images |-> [k \in 1..Len(db.val[m].images) |->
                                          ImageUrl(db.val[m].images[k])]]]
             ELSE notFound

\* if (!exerciseDatabase) await loadExerciseDatabase();
NeedsLoadAlways(db) == TRUE

NeedsLoadNever(db) == FALSE

NeedsLoad(db) == ~Truthy(db)

\* loadExerciseDatabase after axios.get resolved with data: the assignment,
\* then exerciseDatabase.length, which throws on null (caught and logged).
Loaded(data) == data
LoadThrows(data) == data.tag = "null"

\* The lookup handler up to its first await: the dataset is there -> it
\* answers at once; otherwise it starts a fetch of its own and awaits it.
ImgStart(g, q) ==
  /\ img[g].pc = "idle"
  /\ IF NeedsLoad(exerciseDatabase)
     THEN /\ fetchStarted < MaxFetches
          /\ fetchStarted' = fetchStarted + 1
          /\ img' = [img EXCEPT ![g] = [ImgIdle EXCEPT !.pc = "loading", !.query = q]]
     ELSE /\ img' = [img EXCEPT ![g] = ImgAnswer(exerciseDatabase, q)]
          /\ UNCHANGED fetchStarted
  /\ UNCHANGED <<exerciseDatabase, boot, fetchFailed, storeVars, otherVars>>

\* The lookup's fetch resolves: the dataset is assigned and the handler goes on.
ImgLoadOk(g, data) ==
  /\ img[g].pc = "loading"
  /\ exerciseDatabase' = Loaded(data)
  /\ fetchFailed' = IF LoadThrows(data) THEN fetchFailed + 1 ELSE fetchFailed
  /\ img' = [img EXCEPT ![g] = ImgAnswer(Loaded(data), img[g].query)]
  /\ UNCHANGED <<boot, fetchStarted, storeVars, otherVars>>

\* The lookup's fetch rejects: logged; the handler goes on with whatever the
\* dataset is by now.
ImgLoadFail(g) ==
  /\ img[g].pc = "loading"
  /\ fetchFailed' = fetchFailed + 1
  /\ img' = [img EXCEPT ![g] = ImgAnswer(exerciseDatabase, img[g].query)]
  /\ UNCHANGED <<exerciseDatabase, boot, fetchStarted, storeVars, otherVars>>

ImgFinish(g) ==
  /\ img[g].pc \in {"done", "crashed"}
  /\ img' = [img EXCEPT ![g] = ImgIdle]
  /\ UNCHANGED <<exerciseDatabase, boot, fetchStarted, fetchFailed, storeVars, otherVars>>

\* The start-up call of loadExerciseDatabase settles.
BootLoadOk(data) ==
  /\ boot = "fetching"
  /\ boot' = "settled"
  /\ exerciseDatabase' = Loaded(data)
  /\ fetchFailed' = IF LoadThrows(data) THEN fetchFailed + 1 ELSE fetchFailed
  /\ UNCHANGED <<img, fetchStarted, storeVars, otherVars>>

BootLoadFail ==
  /\ boot = "fetching"
  /\ boot' = "settled"
  /\ fetchFailed' = fetchFailed + 1
  /\ UNCHANGED <<exerciseDatabase, img, fetchStarted, storeVars, otherVars>>

(* ------------------------------ populate.js ---------------------------- *)

\* Most items the API's answers hold in one run.
MaxFetched == 3

\* An item of an API answer.
PopExercise(n, t) ==
  [name |-> n, type |-> t, muscle |-> "m", equipment |-> "e",
   difficulty |-> "d", instructions |-> "i"]

PopItems == {PopExercise(n, t) : n \in Names, t \in {"t", UNDEF}}

\* The items of all answers of a run, in the order the requests return them.
PopResponses == UNION {[1..k -> PopItems] : k \in 0..MaxFetched}

\* What the user types at the re-populate question.
PopAnswers == {"y", "n"}

PopIdle ==
  [pc |-> "idle", fetched |-> <<>>, exercises |-> <<>>, i |-> 0,
   existingCount |-> 0, inserted |-> 0, skipped |-> 0, failed |-> 0]

\* A Map that lets a later item replace the one stored under its name.
RECURSIVE fetchKeepingLast(_)
fetchKeepingLast(raw) ==
  IF raw = <<>> THEN <<>>
  ELSE LET n == Len(raw)
           before == fetchKeepingLast(SubSeq(raw, 1, n - 1))
       IN IF \E k \in 1..Len(before) : before[k].name = raw[n].name
          THEN [k \in 1..Len(before) |->
                  IF before[k].name = raw[n].name THEN raw[n] ELSE before[k]]
          ELSE Append(before, raw[n])

\* fetchExercisesFromAPI: allExercises.set(name, exercise) unless the Map has
\* the name; Array.from(allExercises.values()) lists in insertion order.
RECURSIVE fetchExercisesFromAPI(_)
fetchExercisesFromAPI(raw) ==
  IF raw = <<>> THEN <<>>
  ELSE LET n == Len(raw)
           before == fetchExercisesFromAPI(SubSeq(raw, 1, n - 1))
       IN IF \E k \in 1..Len(before) : before[k].name = raw[n].name
          THEN before
          ELSE Append(before, raw[n])

\* v || d
OrElse(v, d) == IF Falsy(v) THEN d ELSE v

\* The object populateDatabase hands to createExercise (no is_favorited key).
PopBody(exercise) ==
  [name |-> exercise.name,
   type |-> OrElse(exercise.type, "unknown"),
   muscle |-> OrElse(exercise.muscle, "unknown"),
   equipment |-> OrElse(exercise.equipment, "none"),
   difficulty |-> OrElse(exercise.difficulty, "beginner"),
   instructions |-> OrElse(exercise.instructions, "No instructions available"),
   is_favorited |-> UNDEF]

\* The loop moves to its next exercise, or past its end.
PopAdvance(p) ==
  [p EXCEPT !.i = p.i + 1,
            !.pc = IF p.i + 1 <= Len(p.exercises) THEN "exists" ELSE "final"]

\* db.connect() and db.initSchema() resolve (CREATE ... IF NOT EXISTS on the
\* existing table).
PopStart ==
  /\ pop.pc = "idle"
  /\ pop' = [pop EXCEPT !.pc = "count"]
  /\ UNCHANGED <<storeVars, imageVars, hasFavorited, migration, page>>

\* existingCount = await db.getExerciseCount(); > 0 -> the question is asked.
PopCount ==
  /\ pop.pc = "count"
  /\ pop' = [pop EXCEPT !.existingCount = CountAll(store),
                        !.pc = IF CountAll(store) > 0 THEN "prompt" ELSE "fetch"]
  /\ UNCHANGED <<storeVars, imageVars, hasFavorited, migration, page>>

\* The answer arrives: anything but y/Y -> 'Aborted.', close, return.
PopAnswer(answer) ==
  /\ pop.pc = "prompt"
  /\ pop' = [pop EXCEPT !.pc = IF LowerChar(answer) # "y" THEN "aborted" ELSE "fetch"]
  /\ UNCHANGED <<storeVars, imageVars, hasFavorited, migration, page>>

\* fetchExercisesFromAPI resolves; no exercise -> close, return; otherwise the
\* counters are set to 0 and the loop issues its first exerciseExists.
PopFetch(raw) ==
  /\ pop.pc = "fetch"
  /\ LET exercises == fetchExercisesFromAPI(raw)
     IN pop' = [pop EXCEPT !.fetched = raw, !.exercises = exercises,
                           !.i = IF Len(exercises) = 0 THEN 0 ELSE 1,
                           !.pc = IF Len(exercises) = 0 THEN "empty" ELSE "exists"]
  /\ UNCHANGED <<storeVars, imageVars, hasFavorited, migration, page>>

\* exerciseExists resolves: true -> skipped++, false -> createExercise is
\* issued.
PopExists ==
  /\ pop.pc = "exists"
  /\ pop' = IF exerciseExists(store, pop.exercises[pop.i].name)
            THEN PopAdvance([pop EXCEPT !.skipped = @ + 1])
            ELSE [pop EXCEPT !.pc = "create"]
  /\ UNCHANGED <<storeVars, imageVars, hasFavorited, migration, page>>

\* createExercise resolves: inserted++.
PopCreate ==
  /\ pop.pc = "create"
  /\ hasFavorited
  /\ nextId <= MaxId
  /\ store' = createExercise(store, nextId, PopBody(pop.exercises[pop.i]))
  /\ nextId' = nextId + 1
  /\ pop' = PopAdvance([pop EXCEPT !.inserted = @ + 1])
  /\ UNCHANGED <<req, toggleRun, imageVars, hasFavorited, migration, page>>

\* exerciseExists or createExercise rejects: the loop's catch, failed++.
PopFail ==
  /\ pop.pc \in {"exists", "create"}
  /\ pop' = PopAdvance([pop EXCEPT !.failed = @ + 1])
  /\ UNCHANGED <<storeVars, imageVars, hasFavorited, migration, page>>

\* finalCount = await db.getExerciseCount(); the totals are printed; close.
PopFinal ==
  /\ pop.pc = "final"
  /\ pop' = [pop EXCEPT !.pc = "done"]
  /\ UNCHANGED <<storeVars, imageVars, hasFavorited, migration, page>>

\* getExerciseCount rejects: the outer catch, close, process.exit(1).
PopFatal ==
  /\ pop.pc \in {"count", "final"}
  /\ pop' = [pop EXCEPT !.pc = "exited"]
  /\ UNCHANGED <<storeVars, imageVars, hasFavorited, migration, page>>

\* The process is over; the script can be run again.
PopReset ==
  /\ pop.pc \in {"aborted", "empty", "done", "exited"}
  /\ pop' = PopIdle
  /\ UNCHANGED <<storeVars, imageVars, hasFavorited, migration, page>>

(* ------------------------ frontend/public/app.js ----------------------- *)

ITEMS_PER_PAGE == 10

\* Fetches of the page that can be on their way at the same time.
PageSlots == {"p1", "p2"}

\* Math.ceil(n / ITEMS_PER_PAGE)
TotalPages(n) == (n + ITEMS_PER_PAGE - 1) \div ITEMS_PER_PAGE

\* An exercise of a response, by the fields the page's code reads.
PageItem(x) == [id |-> x.id, name |-> x.name, is_favorited |-> x.is_favorited]

\* Row i comes before row j under ORDER BY exercise_name ASC (rows of one
\* name in rowid order).
Before(s, i, j) ==
  \/ CodePoint(s[i].exercise_name) < CodePoint(s[j].exercise_name)
  \/ s[i].exercise_name = s[j].exercise_name /\ i < j

\* The ids of set S in the order of their names.
ByName(s, S) ==
  [k \in 1..Cardinality(S) |->
     CHOOSE i \in S : Cardinality({j \in S : Before(s, j, i)}) = k - 1]

\* LIMIT n
Limit(list, n) == SubSeq(list, 1, IF Len(list) < n THEN Len(list) ELSE n)

muscleGroups == <<"biceps", "triceps", "chest", "back", "shoulders", "legs">>

\* GET /api/exercises: for each muscle group getExercises({muscle, limit: 10}),
\* pushed onto one list, then transformed.
RECURSIVE BrowseIds(_, _)
BrowseIds(s, k) ==
  IF k > Len(muscleGroups) THEN <<>>
  ELSE Limit(ByName(s, {i \in DOMAIN s : s[i].muscle = muscleGroups[k]}), 10)
         \o BrowseIds(s, k + 1)

BrowseAnswer(s) ==
  LET ids == BrowseIds(s, 1)
  IN [k \in 1..Len(ids) |-> PageItem(Transformed(RowOf(s, ids[k])))]

\* GET /api/exercises/search?query=: searchExercises(query, 100), transformed.
SearchAnswer(s, query) ==
  LET ids == Limit(ByName(s, searchExercises(s, query)), 100)
  IN [k \in 1..Len(ids) |-> PageItem(Transformed(RowOf(s, ids[k])))]

\* GET /api/exercises/favorites: getFavorites(), each reported as a favourite.
FavoritesAnswer(s) ==
  LET ids == ByName(s, {i \in DOMAIN s : s[i].is_favorited = 1})
  IN [k \in 1..Len(ids) |-> PageItem(TransformedFavorite(RowOf(s, ids[k])))]

\* No fetch in the slot; a fetch on its way.
NoFetch ==
  [kind |-> "none", stage |-> "idle", id |-> 0, query |-> "", ok |-> FALSE,
   list |-> <<>>, is_favorited |-> FALSE]

Sent(kind, id, query) ==
  [NoFetch EXCEPT !.kind = kind, !.stage = "sent", !.id = id, !.query = query]

\* exercisesEl: the cards of the exercises it shows, or a message.
Cleared == [cards |-> {}, message |-> ""]

\* The globals as the script's top level sets them; no fetch yet.
PageClosed ==
  [allExercises |-> <<>>, currentPage |-> 1, isSearchMode |-> FALSE,
   currentSearchQuery |-> "", currentTab |-> "all", exercisesEl |-> Cleared,
   inflight |-> [p \in PageSlots |-> NoFetch]]

\* allExercises.slice(startIndex, endIndex) of displayCurrentPage
PageSlice(pg) ==
  LET startIndex == (pg.currentPage - 1) * ITEMS_PER_PAGE
      endIndex == startIndex + ITEMS_PER_PAGE
      last == IF endIndex < Len(pg.allExercises) THEN endIndex ELSE Len(pg.allExercises)
  IN SubSeq(pg.allExercises, startIndex + 1, last)

\* displayCurrentPage: displayExercises(pageExercises) shows the cards of the
\* slice, or 'No exercises found' for an empty one; updatePagination writes
\* the page numbers and the buttons.
displayCurrentPage(pg) ==
  LET pageExercises == PageSlice(pg)
  IN [pg EXCEPT !.exercisesEl =
        IF Len(pageExercises) = 0
        THEN [cards |-> {}, message |-> "No exercises found"]
        ELSE [cards |-> {pageExercises[k].id : k \in 1..Len(pageExercises)},
              message |-> ""]]

\* fetchExercises up to its await, its fetch put in slot p.
fetchExercises(pg, p) ==
  [pg EXCEPT !.isSearchMode = FALSE, !.currentPage = 1,
             !.inflight[p] = Sent("browse", 0, "")]

\* fetchFavorites up to its await.
fetchFavorites(pg, p) ==
  [pg EXCEPT !.exercisesEl = Cleared, !.inflight[p] = Sent("favorites", 0, "")]

\* performSearch on the trimmed input, up to its await.
performSearch(pg, p, input) ==
  LET query == TrimQuery(input)
  IN IF query = "" THEN fetchExercises(pg, p)
     ELSE [pg EXCEPT !.exercisesEl = Cleared, !.isSearchMode = TRUE,
                     !.currentSearchQuery = query, !.currentPage = 1,
                     !.inflight[p] = Sent("search", 0, query)]

switchTab(pg, p, tab) ==
  LET pg1 == [pg EXCEPT !.currentTab = tab, !.currentPage = 1]
  IN IF tab = "all"
     THEN IF pg1.isSearchMode THEN displayCurrentPage(pg1) ELSE fetchExercises(pg1, p)
     ELSE fetchFavorites(pg1, p)

nextPage(pg) ==
  IF pg.currentPage < TotalPages(Len(pg.allExercises))
  THEN displayCurrentPage([pg EXCEPT !.currentPage = @ + 1])
  ELSE pg

previousPage(pg) ==
  IF pg.currentPage > 1
  THEN displayCurrentPage([pg EXCEPT !.currentPage = @ - 1])
  ELSE pg

\* Texts of the search box, and the exercises whose star, Delete button or
\* edit form the user works.
PageInputs == {"b", " "}
PageIds == {11}

\* A slot of the page is free for the fetch of a new call.
Free(p) == page.inflight[p].stage = "idle"

NextPageClick ==
  /\ page' = nextPage(page)
  /\ UNCHANGED <<storeVars, imageVars, hasFavorited, migration, pop>>

PreviousPageClick ==
  /\ page' = previousPage(page)
  /\ UNCHANGED <<storeVars, imageVars, hasFavorited, migration, pop>>

\* A tab button is clicked; switchTab('all') in search mode fetches nothing.
SwitchTabClick(p, tab) ==
  /\ Free(p) \/ (tab = "all" /\ page.isSearchMode)
  /\ page' = switchTab(page, p, tab)
  /\ UNCHANGED <<storeVars, imageVars, hasFavorited, migration, pop>>

\* The search is submitted (a blank input, like clearSearch, calls
\* fetchExercises).
PerformSearchCall(p, input) ==
  /\ Free(p)
  /\ page' = performSearch(page, p, input)
  /\ UNCHANGED <<storeVars, imageVars, hasFavorited, migration, pop>>

\* The star of a card that is shown is clicked: toggleFavorite up to its await.
ToggleFavoriteClick(p, id) ==
  /\ Free(p)
  /\ id \in page.exercisesEl.cards
  /\ page' = [page EXCEPT !.inflight[p] = Sent("toggle", id, "")]
  /\ UNCHANGED <<storeVars, imageVars, hasFavorited, migration, pop>>

\* Delete is confirmed in the detail view of an exercise the list held.
DeleteExerciseCall(p, id) ==
  /\ Free(p)
  /\ \E k \in 1..Len(page.allExercises) : page.allExercises[k].id = id
  /\ page' = [page EXCEPT !.inflight[p] = Sent("delete", id, "")]
  /\ UNCHANGED <<storeVars, imageVars, hasFavorited, migration, pop>>

\* The edit form of an exercise the list held is submitted: PUT.
SaveExerciseCall(p, id) ==
  /\ Free(p)
  /\ \E k \in 1..Len(page.allExercises) : page.allExercises[k].id = id
  /\ page' = [page EXCEPT !.inflight[p] = Sent("save", id, "")]
  /\ UNCHANGED <<storeVars, imageVars, hasFavorited, migration, pop>>

\* The server handles the request of slot p and answers it.
PageServe(p) ==
  LET f == page.inflight[p]
      found == f.id \in DOMAIN store
  IN /\ f.stage = "sent"
     /\ store' = CASE f.kind = "toggle" -> toggleFavorite(store, f.id)
                   [] f.kind = "delete" -> deleteExercise(store, f.id)
                   [] f.kind = "save" -> updateExercise(store, f.id, EditFormBody)
                   [] OTHER -> store
     /\ page' = [page EXCEPT !.inflight[p] =
          [f EXCEPT !.stage = "answered",
                    !.ok = (f.kind \in {"browse", "search", "favorites"} \/ found),
                    !.list = CASE f.kind = "browse" -> BrowseAnswer(store)
                               [] f.kind = "search" -> SearchAnswer(store, f.query)
                               [] f.kind = "favorites" -> FavoritesAnswer(store)
                               [] OTHER -> <<>>,
                    !.is_favorited = (f.kind = "toggle" /\ found
                                        /\ ToggledValue(store[f.id].is_favorited) = 1)]]
     /\ UNCHANGED <<nextId, req, toggleRun, imageVars, hasFavorited, migration, pop>>

\* The refresh after a save or a delete, by the current tab.
RefreshByTab(pg, p) ==
  IF pg.currentTab = "favorites" THEN fetchFavorites(pg, p) ELSE fetchExercises(pg, p)

\* The answer reaches the function that awaits it, which runs to its end.
Delivered(pg, p) ==
  LET f == pg.inflight[p]
      done == [pg EXCEPT !.inflight[p] = NoFetch]
  IN CASE f.kind \in {"browse", "search"} ->
            displayCurrentPage([done EXCEPT !.allExercises = f.list])
       [] f.kind = "favorites" ->
            IF Len(f.list) = 0
            THEN [done EXCEPT !.allExercises = f.list,
                              !.exercisesEl = [cards |-> {}, message |-> "No favorites yet"]]
            ELSE displayCurrentPage([done EXCEPT !.allExercises = f.list])
       [] f.kind = "toggle" /\ f.ok ->
            LET local == [done EXCEPT !.allExercises =
                            [k \in 1..Len(@) |->
                               IF @[k].id = f.id /\ \A j \in 1..(k - 1) : @[j].id # f.id
                               THEN [@[k] EXCEPT !.is_favorited = f.is_favorited]
                               ELSE @[k]]]
            IN IF local.currentTab = "favorites" THEN fetchFavorites(local, p) ELSE local
       [] f.kind \in {"delete", "save"} /\ f.ok -> RefreshByTab(done, p)
       [] OTHER -> done

PageDeliver(p) ==
  /\ page.inflight[p].stage = "answered"
  /\ page' = Delivered(page, p)
  /\ UNCHANGED <<storeVars, imageVars, hasFavorited, migration, pop>>

\* The process after server.js has run to app.listen: the store as populate.js
\* leaves a fresh table (no row yet), the dataset null with the start-up fetch
\* in flight, no request yet.
Init ==
  /\ store = <<>>
  /\ nextId = 1
  /\ req = [r \in Slots |-> Idle]
  /\ toggleRun = [i \in Ids |-> <<>>]
  /\ exerciseDatabase = Unloaded
  /\ boot = "fetching"
  /\ img = [g \in ImgSlots |-> ImgIdle]
  /\ fetchStarted = 1
  /\ fetchFailed = 0
  /\ hasFavorited = TRUE
  /\ migration = "none"
  /\ pop = PopIdle
  /\ page = PageClosed

(* ------------------------------ the system ----------------------------- *)

\* A migration that drops what the column held: every row reads 0 after it.
migrateResetFavorited(s) ==
  [i \in DOMAIN s |->
     [c \in DOMAIN s[i] \cup {"is_favorited"} |->
        IF c = "is_favorited" THEN 0 ELSE s[i][c]]]

\* Database.migrateAddFavorited: ALTER TABLE Exercises ADD COLUMN is_favorited
\* INTEGER DEFAULT 0; rows that have the column (every row of a table made
\* from schema.sql) stay as they are: 'duplicate column name', resolved.
migrateAddFavorited(s) ==
  [i \in DOMAIN s |->
     IF "is_favorited" \in DOMAIN s[i] THEN s[i]
     ELSE [c \in DOMAIN s[i] \cup {"is_favorited"} |->
             IF c = "is_favorited" THEN 0 ELSE s[i][c]]]

\* runMigration, on a connection of its own: its effect on the table, and
\* which of the two resolving branches of the ALTER's callback was taken.
MigrateRun ==
  /\ store' = migrateAddFavorited(store)
  /\ hasFavorited' = TRUE
  /\ migration' = IF hasFavorited THEN "exists" ELSE "added"
  /\ UNCHANGED <<nextId, req, toggleRun, imageVars, pop, page>>

\* Steps every handler shares.
Lifecycle(r) ==
  \/ Connect(r) \/ ConnectFail(r) \/ QueryFail(r) \/ CatchClose(r) \/ Finish(r)

ToggleSteps(r) ==
  \/ ToggleRun(r) \/ ToggleReread(r) \/ ToggleClose404(r) \/ ToggleClose200(r)

CreateSteps(r) ==
  \/ CreateExists(r) \/ CreateInsert(r) \/ CreateClose409(r) \/ CreateClose201(r)

UpdateSteps(r) ==
  \/ UpdateRun(r) \/ UpdateReread(r) \/ UpdateClose404(r) \/ UpdateClose200(r)

\* Favourite traffic: toggles racing with creates, updates of is_favorited
\* and deletes.
NextFav ==
  \E r \in Slots :
    \/ Lifecycle(r)
    \/ \E id \in Ids : ToggleStart(r, id)
    \/ ToggleSteps(r)
    \/ \E body \in FavCreateBodies : CreateStart(r, body)
    \/ CreateSteps(r)
    \/ \E id \in Ids : \E body \in FavUpdateBodies : UpdateStart(r, id, body)
    \/ UpdateSteps(r)
    \/ \E id \in Ids : DeleteStart(r, id)
    \/ DeleteRun(r) \/ DeleteClose(r)

SpecFav == Init /\ [][NextFav]_vars

\* Name traffic: creates racing with renaming updates and deletes.
NextNames ==
  \E r \in Slots :
    \/ Lifecycle(r)
    \/ \E body \in CreateBodies : CreateStart(r, body)
    \/ CreateSteps(r)
    \/ \E id \in Ids : \E body \in NameUpdateBodies : UpdateStart(r, id, body)
    \/ UpdateSteps(r)
    \/ \E id \in Ids : DeleteStart(r, id)
    \/ DeleteRun(r) \/ DeleteClose(r)

SpecNames == Init /\ [][NextNames]_vars

\* Every catalog-store handler, on one id.
NextConn ==
  \E r \in Slots :
    \/ Lifecycle(r)
    \/ ToggleStart(r, 1)
    \/ ToggleSteps(r)
    \/ \E body \in ConnCreateBodies : CreateStart(r, body)
    \/ CreateSteps(r)
    \/ \E body \in ConnUpdateBodies : UpdateStart(r, 1, body)
    \/ UpdateSteps(r)
    \/ DeleteStart(r, 1)
    \/ DeleteRun(r) \/ DeleteClose(r)
    \/ GetStart(r, 1)
    \/ GetRun(r) \/ GetClose(r)
    \/ \E q \in SearchQueries : SearchStart(r, q)
    \/ SearchRun(r) \/ SearchClose(r)
    \/ MigrateRun

SpecConn == Init /\ [][NextConn]_vars

\* Updates of two records, with creates and deletes.
NextUpd ==
  \E r \in Slots :
    \/ Lifecycle(r)
    \/ \E body \in UpdCreateBodies : CreateStart(r, body)
    \/ CreateSteps(r)
    \/ \E id \in UpdIds : \E body \in UpdUpdateBodies : UpdateStart(r, id, body)
    \/ UpdateSteps(r)
    \/ \E id \in UpdIds : DeleteStart(r, id)
    \/ DeleteRun(r) \/ DeleteClose(r)

SpecUpd == Init /\ [][NextUpd]_vars

\* The read endpoints for favourites next to the writes of is_favorited (no
\* connection or statement fails in these runs).
NextStats ==
  \E r \in Slots :
    \/ Connect(r) \/ CatchClose(r) \/ Finish(r)
    \/ \E body \in StatsCreateBodies : CreateStart(r, body)
    \/ CreateSteps(r)
    \/ \E id \in UpdIds : ToggleStart(r, id)
    \/ ToggleSteps(r)
    \/ UpdateStart(r, 1, [is_favorited |-> JsFalse])
    \/ UpdateSteps(r)
    \/ DeleteStart(r, 1)
    \/ DeleteRun(r) \/ DeleteClose(r)
    \/ \E id \in UpdIds : GetStart(r, id)
    \/ GetRun(r) \/ GetClose(r)
    \/ FavoritesStart(r)
    \/ FavoritesRun(r) \/ FavoritesClose(r)
    \/ StatsStart(r)
    \/ StatsTotal(r) \/ StatsFavorites(r) \/ StatsMuscle(r) \/ StatsClose(r)

SpecStats == Init /\ [][NextStats]_vars

\* A row of a table made before the column is_favorited was introduced.
OldRow(n) ==
  [exercise_name |-> n, exercise_type |-> "t", muscle |-> "m", equipment |-> "e",
   difficulty |-> "d", instructions |-> "i", last_updated |-> NULL,
   created_timestamp |-> TS]

\* Tables a server start may find: one from before the column with two rows,
\* and one made from schema.sql with a favourite in it.
MigTables ==
  { [rows |-> <<OldRow("a"), OldRow("A")>>, has |-> FALSE],
    [rows |-> <<NewRow(ValidBody("a", JsTrue))>>, has |-> TRUE] }

\* The process at a server start over an existing database file.
InitMig ==
  /\ \E t \in MigTables :
       /\ store = t.rows
       /\ nextId = Len(t.rows) + 1
       /\ hasFavorited = t.has
  /\ migration = "none"
  /\ pop = PopIdle
  /\ page = PageClosed
  /\ req = [r \in Slots |-> Idle]
  /\ toggleRun = [i \in Ids |-> <<>>]
  /\ exerciseDatabase = Unloaded
  /\ boot = "fetching"
  /\ img = [g \in ImgSlots |-> ImgIdle]
  /\ fetchStarted = 1
  /\ fetchFailed = 0

\* Server starts (each runs the migration) with toggles and updates of
\* is_favorited between and around them.
NextMig ==
  \/ MigrateRun
  \/ \E r \in Slots :
       \/ Lifecycle(r)
       \/ \E id \in UpdIds : ToggleStart(r, id)
       \/ ToggleSteps(r)
       \/ \E id \in UpdIds : \E body \in FavUpdateBodies : UpdateStart(r, id, body)
       \/ UpdateSteps(r)

SpecMig == InitMig /\ [][NextMig]_vars

\* Runs of populate.js, one after the other, on the table a run before left.
NextPop ==
  \/ PopStart \/ PopCount
  \/ \E answer \in PopAnswers : PopAnswer(answer)
  \/ \E raw \in PopResponses : PopFetch(raw)
  \/ PopExists \/ PopCreate \/ PopFail \/ PopFinal \/ PopFatal \/ PopReset

SpecPop == Init /\ [][NextPop]_vars

\* The catalog the page is opened on: ten biceps exercises named "a" and two
\* chest exercises named "b"; all but the last are favourites.
PageCatalog ==
  [i \in 1..12 |->
     NewRow([name |-> IF i <= 10 THEN "a" ELSE "b", type |-> "t",
             muscle |-> IF i <= 10 THEN "biceps" ELSE "chest",
             equipment |-> "e", difficulty |-> "d", instructions |-> "i",
             is_favorited |-> IF i <= 11 THEN JsTrue ELSE JsFalse])]

\* The page has loaded: the call of fetchExercises at the end of app.js has
\* sent its fetch.
InitPage ==
  /\ store = PageCatalog
  /\ nextId = 13
  /\ req = [r \in Slots |-> Idle]
  /\ toggleRun = [i \in Ids |-> <<>>]
  /\ exerciseDatabase = Unloaded
  /\ boot = "fetching"
  /\ img = [g \in ImgSlots |-> ImgIdle]
  /\ fetchStarted = 1
  /\ fetchFailed = 0
  /\ hasFavorited = TRUE
  /\ migration = "none"
  /\ pop = PopIdle
  /\ page = fetchExercises(PageClosed, "p1")

\* One page and the server that answers it.
NextPage ==
  \/ NextPageClick \/ PreviousPageClick
  \/ \E p \in PageSlots :
       \/ \E tab \in {"all", "favorites"} : SwitchTabClick(p, tab)
       \/ \E input \in PageInputs : PerformSearchCall(p, input)
       \/ \E id \in PageIds : ToggleFavoriteClick(p, id)
       \/ \E id \in PageIds : DeleteExerciseCall(p, id)
       \/ \E id \in PageIds : SaveExerciseCall(p, id)
       \/ PageServe(p)
       \/ PageDeliver(p)

SpecPage == InitPage /\ [][NextPage]_vars

\* The image lookups and the start-up load.
NextImg ==
  \/ \E data \in FetchData : BootLoadOk(data)
  \/ BootLoadFail
  \/ \E g \in ImgSlots :
       \/ \E q \in ImgQueries : ImgStart(g, q)
       \/ \E data \in FetchData : ImgLoadOk(g, data)
       \/ ImgLoadFail(g)
       \/ ImgFinish(g)

SpecImg == Init /\ [][NextImg]_vars

(* ---------------- the matcher and the normalizer on their inputs -------- *)

\* Catalogs a load can have set: every entry has a text name (the dataset's
\* entries do); images may be empty or missing.
MatchCatalog1 ==
  << [name |-> <<"A", "-", "b">>, images |-> <<"Ab/1.jpg", "Ab/0.jpg">>],
     [name |-> <<"b">>, images |-> <<"B/0.jpg">>],
     [name |-> <<"a", " ", "b", " ", "c">>, images |-> <<"Abc/0.jpg">>] >>

MatchCatalog2 ==
  << [name |-> <<"c">>, images |-> NoImages],
     [name |-> <<"b">>, images |-> <<>>],
     [name |-> <<"a", "_", "b">>, images |-> <<"Ab/0.jpg">>],
     [name |-> <<"B", " ", "c">>, images |-> <<"Bc/0.jpg", "Bc/1.jpg">>] >>

MatchCatalog3 ==
  << [name |-> <<"a", "b">>, images |-> <<"AB/0.jpg">>],
     [name |-> <<"-">>, images |-> <<"Dash/0.jpg">>] >>

MatchCatalogs == {MatchCatalog1, MatchCatalog2, MatchCatalog3, <<>>}

MatchQueries ==
  { <<"b">>, <<"B">>, <<"c">>, <<"a">>, <<"a", "_", "B">>, <<"a", "b">>,
    <<"a", "-", "b", "\t", " ", "C">>, <<"_">>, <<"b", " ", "a">> }

\* The process once a load has set the dataset to a list and no fetch is in
\* flight.
InitMatch ==
  /\ store = <<>>
  /\ nextId = 1
  /\ req = [r \in Slots |-> Idle]
  /\ toggleRun = [i \in Ids |-> <<>>]
  /\ \E c \in MatchCatalogs : exerciseDatabase = ListData(c)
  /\ boot = "settled"
  /\ img = [g \in ImgSlots |-> ImgIdle]
  /\ fetchStarted = 1
  /\ fetchFailed = 0
  /\ hasFavorited = TRUE
  /\ migration = "none"
  /\ pop = PopIdle
  /\ page = PageClosed

\* Lookups against a loaded catalog.
NextMatch ==
  \E g \in ImgSlots :
    \/ \E q \in MatchQueries : ImgStart(g, q)
    \/ ImgFinish(g)

SpecMatch == InitMatch /\ [][NextMatch]_vars

\* Longest text the normalizer is run on.
MaxLen == 4

\* Letters of both cases, hyphen, underscore, and two kinds of whitespace.
NormAlphabet == {"a", "B", "-", "_", " ", "\t"}

Texts(n) == UNION {[1..k -> NormAlphabet] : k \in 0..n}

NormQueries ==
  Texts(MaxLen) \cup {<<"l", "e", "g", "-", "_", "p", "r", "e", "s", "s">>}

\* Catalog names of the normalizer runs.
NormNames ==
  Texts(1) \cup { <<"a", "_", "B">>, <<"B", "\t", "-", "a">>, <<" ", "a", "a">>,
                  <<"L", "e", "g", " ", "P", "r", "e", "s", "s">> }

\* The process once a load has set the dataset to a one-entry list.
InitNorm ==
  /\ store = <<>>
  /\ nextId = 1
  /\ req = [r \in Slots |-> Idle]
  /\ toggleRun = [i \in Ids |-> <<>>]
  /\ \E n \in NormNames :
       exerciseDatabase = ListData(<<[name |-> n, images |-> <<"N/0.jpg">>]>>)
  /\ boot = "settled"
  /\ img = [g \in ImgSlots |-> ImgIdle]
  /\ fetchStarted = 1
  /\ fetchFailed = 0
  /\ hasFavorited = TRUE
  /\ migration = "none"
  /\ pop = PopIdle
  /\ page = PageClosed

\* One lookup at a time, on any text.
NextNorm ==
  \/ \E q \in NormQueries : ImgStart("g1", q)
  \/ ImgFinish("g1")

SpecNorm == InitNorm /\ [][NextNorm]_vars

(* ------------------------------- claims -------------------------------- *)

\* C1: per record, a toggle inverts is_favorited, and two toggles with no
\* other write to the record in between leave it at the value it had before
\* the first (toggleRun holds the values found by the latest toggles that no
\* other write to the record separates).
C1_TwoTogglesRestore ==
  \A id \in DOMAIN store :
    LET run == toggleRun[id]
    IN /\ Len(run) >= 1 => store[id].is_favorited = 1 - run[Len(run)]
       /\ Len(run) = 2 => store[id].is_favorited = run[1]

C1_Witness ==
  \E id \in DOMAIN store : Len(toggleRun[id]) = 2 /\ store[id].is_favorited = 1

\* C2: a toggle whose UPDATE finds no row with its id leaves the store as it
\* is, and the request is answered 404.
C2_ToggleOfMissingId ==
  /\ [](\A r \in Slots :
          (req[r].kind = "toggle" /\ req[r].pc = "done" /\ ~req[r].err /\ req[r].pre = -1)
            => req[r].status = 404)
  /\ [][\A r \in Slots :
          (req[r].kind = "toggle" /\ req[r].pc = "toggle"
             /\ req[r].id \notin DOMAIN store /\ req'[r] # req[r])
            => store' = store]_vars

C2_Witness ==
  \E r \in Slots :
    /\ req[r].kind = "toggle" /\ req[r].status = 404 /\ req[r].pre = -1
    /\ DOMAIN store # {} /\ req[r].id \notin DOMAIN store

\* C3: the is_favorited of a toggle's 200 response is the negation of the value
\* the record held right before this request's own inversion (pre).
C3_ToggleReturnsOwnValue ==
  \A r \in Slots :
    (req[r].kind = "toggle" /\ req[r].status = 200)
      => req[r].out[1].is_favorited = (req[r].pre = 0)

\* C4: no two records of the store have the same name.
C4_NamesUnique ==
  \A i, j \in DOMAIN store :
    i # j => store[i].exercise_name # store[j].exercise_name

\* C5: a create whose exists-check runs while a record has exactly its name is
\* answered 409 and writes nothing; one whose name differs from every stored
\* name, be it in case only, goes on to insert a record of that name and is
\* answered 201.
C5_ExactNameConflict ==
  [][\A r \in Slots :
       LET q == req[r]
           taken == \E i \in DOMAIN store : store[i].exercise_name = q.body.name
       IN /\ (q.kind = "create" /\ q.pc = "exists" /\ req'[r] # q /\ ~req'[r].err)
               => /\ store' = store
                  /\ req'[r].pc = IF taken THEN "close409" ELSE "insert"
          /\ (q.kind = "create" /\ q.pc = "close409" /\ req'[r] # q)
               => store' = store /\ req'[r].status = 409
          /\ (q.kind = "create" /\ q.pc = "insert" /\ req'[r] # q /\ ~req'[r].err)
               => \E i \in DOMAIN store' \ DOMAIN store :
                     store'[i].exercise_name = q.body.name
          /\ (q.kind = "create" /\ q.pc = "close201" /\ req'[r] # q)
               => store' = store /\ req'[r].status = 201]_vars

C5_Witness ==
  \E r \in Slots :
    /\ req[r].kind = "create" /\ req[r].status = 201
    /\ \E i \in DOMAIN store :
         /\ i # req[r].id
         /\ store[i].exercise_name # req[r].body.name
         /\ LowerChar(store[i].exercise_name) = LowerChar(req[r].body.name)

\* C6: a create with a missing or empty required field is answered 400 in the
\* step that receives it: the store is untouched and the handler's connection
\* is never opened (this.db stays null).
C6_MissingFieldIs400 ==
  [][\A r \in Slots :
       (req[r].pc = "idle" /\ req'[r].kind = "create"
          /\ \E f \in Required : req'[r].body[f] \in {UNDEF, ""})
         => /\ req'[r].pc = "done"
            /\ req'[r].status = 400
            /\ req'[r].conn = NULL
            /\ store' = store]_vars

C6_Witness ==
  \E r \in Slots :
    /\ req[r].kind = "create" /\ req[r].status = 400 /\ req[r].conn = NULL
    /\ req[r].body.name = "a" /\ req[r].body.instructions = ""

\* C7: a request that is over (answered, or dead without an answer) holds no
\* open connection.
C7_NoConnectionLeftOpen ==
  \A r \in Slots : req[r].pc \in {"done", "crashed"} => req[r].conn # "open"

C7_Witness ==
  \E r \in Slots :
    req[r].pc = "done" /\ req[r].status = 500 /\ req[r].err /\ req[r].conn = "closed"

\* C8: a request in which an exception was thrown is answered with 500.
C8_FailureAnswered500 ==
  \A r \in Slots :
    (req[r].err /\ req[r].pc \in {"done", "crashed"}) => req[r].status = 500

\* The matching of query q against dataset db throws: db is no list, or the
\* scan reaches a nameless entry before any candidate.
C9_MatchThrows(db, q) ==
  \/ db.tag = "object"
  \/ /\ db.tag = "list"
     /\ \E i \in 1..Len(db.val) :
          /\ db.val[i].name = NoName
          /\ \A k \in 1..(i - 1) : db.val[k].name # NoName /\ ~Candidate(db.val[k], q)

\* C9: a lookup never dies unanswered, every answer has status 200, and the
\* answer given while the dataset is unset, or when the matching throws, is
\* {images: null, found: false}.
C9_LookupAlways200 ==
  /\ [](\A g \in ImgSlots :
          /\ img[g].pc # "crashed"
          /\ img[g].pc = "done" => img[g].status = 200)
  /\ [][\A g \in ImgSlots :
          (img[g].pc # "done" /\ img'[g].pc = "done"
             /\ (~Truthy(exerciseDatabase') \/ C9_MatchThrows(exerciseDatabase', img'[g].query)))
            => img'[g].out = NotFoundBody]_vars

C9_Witness ==
  \E g \in ImgSlots :
    /\ img[g].pc = "done" /\ img[g].status = 200 /\ img[g].out = NotFoundBody
    /\ exerciseDatabase = ListData(Catalog2) /\ img[g].query = <<"b">>

\* C10 as stated: a fetch after the first is started only once some fetch has
\* ended in failure.
C10_SecondFetchOnlyAfterFailure ==
  [][(fetchStarted' > fetchStarted /\ fetchStarted >= 1) => fetchFailed >= 1]_vars

\* C10 amended: a fetch after the start-up one is started only by a lookup
\* that finds the dataset unset, and a lookup that finds the dataset set
\* starts none.
C10_FetchOnlyWhileUnset ==
  [][/\ fetchStarted' > fetchStarted
          => /\ ~Truthy(exerciseDatabase)
             /\ \E g \in ImgSlots : img[g].pc = "idle" /\ img'[g].pc = "loading"
     /\ \A g \in ImgSlots :
          (img[g].pc = "idle" /\ img'[g].pc # "idle" /\ Truthy(exerciseDatabase))
            => fetchStarted' = fetchStarted]_vars

C10_Witness ==
  /\ boot = "fetching" /\ fetchFailed = 0 /\ fetchStarted = 2
  /\ \E g \in ImgSlots : img[g].pc = "loading"

\* C11: once a load has set the dataset, no later step (a lookup, a failed
\* load, another load completing) replaces or clears it.
C11_DatasetKeptOnceSet ==
  [][Truthy(exerciseDatabase) => exerciseDatabase' = exerciseDatabase]_vars

\* C12: a load that fails leaves an unset dataset unset; a lookup that finds
\* the dataset unset starts exactly one load (none more until it answers)
\* and answers only once that load has settled; after the start-up load, a
\* load is started by nothing but a lookup request taking its first step.
C12_FailedLoadAndRetry ==
  [][/\ (fetchFailed' > fetchFailed /\ ~Truthy(exerciseDatabase))
          => ~Truthy(exerciseDatabase')
     /\ \A g \in ImgSlots :
          /\ (img[g].pc = "idle" /\ img'[g].pc # "idle" /\ ~Truthy(exerciseDatabase))
               => /\ fetchStarted' = fetchStarted + 1
                  /\ img'[g].pc = "loading"
          /\ (img[g].pc = "loading" /\ img'[g].pc # "loading")
               => /\ fetchStarted' = fetchStarted
                  /\ img'[g].pc = "done"
     /\ fetchStarted' # fetchStarted
          => /\ fetchStarted' = fetchStarted + 1
             /\ \E g \in ImgSlots : img[g].pc = "idle" /\ img'[g].pc = "loading"]_vars

C12_Witness ==
  /\ boot = "settled" /\ fetchFailed >= 1 /\ ~Truthy(exerciseDatabase)
  /\ \E g \in ImgSlots : img[g].pc = "loading"

(* Claims C13 to C18 read the matcher off the lookup's answer: what follows
   restates containment and first-candidate on their own. *)

\* a is a contiguous part of b.
IsSubstring(a, b) ==
  \E i \in 1..(Len(b) + 1) : \E j \in (i - 1)..Len(b) : SubSeq(b, i, j) = a

Contained(q, name) ==
  \/ IsSubstring(Normalize(q), Normalize(name))
  \/ IsSubstring(Normalize(name), Normalize(q))

ContainedAt(list, q) == {i \in 1..Len(list) : Contained(q, list[i].name)}

\* The smallest index whose entry satisfies containment, 0 when none does.
FirstContained(list, q) ==
  IF ContainedAt(list, q) = {} THEN 0
  ELSE CHOOSE i \in ContainedAt(list, q) : \A j \in ContainedAt(list, q) : i <= j

HasImages(entry) == entry.images # NoImages /\ Len(entry.images) > 0

\* An answered lookup against a list.
Answered(g) == img[g].pc = "done" /\ exerciseDatabase.tag = "list"

\* C13: when several entries of the catalog satisfy containment for the
\* query, the answer depends on the smallest-index one alone: found and the
\* images returned are those of that entry.
C13_FirstMatchWins ==
  \A g \in ImgSlots :
    Answered(g) =>
      LET list == exerciseDatabase.val
          m == FirstContained(list, img[g].query)
      IN m # 0 =>
           /\ img[g].out.found = HasImages(list[m])
           /\ img[g].out.found =>
                /\ Len(img[g].out.images) = Len(list[m].images)
                /\ \A k \in 1..Len(list[m].images) :
                     img[g].out.images[k] = ImageUrl(list[m].images[k])

C13_Witness ==
  \E g \in ImgSlots :
    /\ Answered(g) /\ exerciseDatabase = ListData(MatchCatalog1)
    /\ img[g].query = <<"b">>
    /\ Cardinality(ContainedAt(MatchCatalog1, <<"b">>)) = 3
    /\ img[g].out.found
    /\ img[g].out.images = <<ImageUrl("Ab/1.jpg"), ImageUrl("Ab/0.jpg")>>

\* C14: an entry is a candidate for the query exactly when one normalized
\* text is a contiguous part of the other; the relation does not change when
\* query and entry name change places; and a lookup against a catalog none
\* of whose entries satisfies it finds nothing.
C14_CandidateIsContainment ==
  \A g \in ImgSlots :
    Answered(g) =>
      LET list == exerciseDatabase.val
          q == img[g].query
      IN /\ \A i \in 1..Len(list) :
              /\ Candidate(list[i], q) <=> Contained(q, list[i].name)
              /\ Candidate(list[i], q)
                   <=> Candidate([name |-> q, images |-> <<>>], list[i].name)
         /\ ContainedAt(list, q) = {} => img[g].out = NotFoundBody
         /\ img[g].out.found => ContainedAt(list, q) # {}

\* Found by containment in each direction, with normalized texts that differ.
C14_Witness ==
  /\ exerciseDatabase = ListData(MatchCatalog3)
  /\ img["g1"].pc = "done" /\ img["g1"].query = <<"a">> /\ img["g1"].out.found
  /\ img["g2"].pc = "done" /\ img["g2"].query = <<"a", "b">> /\ img["g2"].out.found
  /\ Normalize(<<"a">>) # Normalize(MatchCatalog3[1].name)
  /\ IsSubstring(Normalize(<<"a">>), Normalize(MatchCatalog3[1].name))
  /\ ~IsSubstring(Normalize(MatchCatalog3[1].name), Normalize(<<"a">>))

\* C15: when the first entry in catalog order that satisfies containment has
\* an empty or missing images list, the answer is {found: false, images:
\* null}, whatever later entries hold; found is true only when that first
\* entry has at least one image.
C15_EmptyFirstCandidateIsNotFound ==
  \A g \in ImgSlots :
    Answered(g) =>
      LET list == exerciseDatabase.val
          m == FirstContained(list, img[g].query)
      IN /\ (m # 0 /\ ~HasImages(list[m])) => img[g].out = NotFoundBody
         /\ img[g].out.found => (m # 0 /\ HasImages(list[m]))

\* Query b: first candidate with an empty list; query c: first candidate
\* with no list; a later candidate with images in both cases.
C15_Witness ==
  /\ exerciseDatabase = ListData(MatchCatalog2)
  /\ img["g1"].pc = "done" /\ img["g1"].query = <<"b">>
  /\ img["g1"].out = NotFoundBody
  /\ FirstContained(MatchCatalog2, <<"b">>) = 2
  /\ \E i \in ContainedAt(MatchCatalog2, <<"b">>) : HasImages(MatchCatalog2[i])
  /\ img["g2"].pc = "done" /\ img["g2"].query = <<"c">>
  /\ img["g2"].out = NotFoundBody
  /\ FirstContained(MatchCatalog2, <<"c">>) = 1
  /\ \E i \in ContainedAt(MatchCatalog2, <<"c">>) : HasImages(MatchCatalog2[i])

C18_Base == "https://raw.githubusercontent.com/yuhonas/free-exercise-db/main/exercises"

\* C18: a found answer lists one URL per image of the matched entry, in the
\* entry's order, each the base URL, one slash and the entry's fragment as it
\* is; answering leaves the dataset, the entry's images with it, as it was.
C18_UrlsFollowEntryImages ==
  /\ [](\A g \in ImgSlots :
          (Answered(g) /\ img[g].out.found) =>
            LET list == exerciseDatabase.val
                m == FirstContained(list, img[g].query)
            IN /\ m # 0
               /\ Len(img[g].out.images) = Len(list[m].images)
               /\ \A k \in 1..Len(list[m].images) :
                    img[g].out.images[k] = (C18_Base \o "/") \o list[m].images[k])
  /\ [][\A g \in ImgSlots :
          (img[g].pc # "done" /\ img'[g].pc = "done")
            => exerciseDatabase' = exerciseDatabase]_vars

C18_Witness ==
  \E g \in ImgSlots :
    /\ Answered(g) /\ exerciseDatabase = ListData(MatchCatalog1)
    /\ img[g].query = <<"a", "_", "B">>
    /\ img[g].out.found
    /\ img[g].out.images =
         << "https://raw.githubusercontent.com/yuhonas/free-exercise-db/main/exercises/Ab/1.jpg",
            "https://raw.githubusercontent.com/yuhonas/free-exercise-db/main/exercises/Ab/0.jpg" >>

\* The texts of an answered lookup: the query and the catalog names.
TextsOf(g) ==
  {img[g].query} \cup {exerciseDatabase.val[i].name : i \in 1..Len(exerciseDatabase.val)}

\* C16: normalizing a normalized text changes nothing, for every text over
\* letters, hyphen, underscore and whitespace that a lookup normalizes.
C16_NormalizeIdempotent ==
  \A g \in ImgSlots :
    Answered(g) => \A x \in TextsOf(g) : Normalize(Normalize(x)) = Normalize(x)

\* A query that every step of the normalization changes.
C16_Witness ==
  /\ Answered("g1") /\ img["g1"].query = <<"B", "-", "\t", " ">>
  /\ Normalize(img["g1"].query) = <<"b">>

C17_Separator(c) == c \in {"-", "_", " ", "\t"}

C17_Fold(c) == IF c = "B" THEN "b" ELSE IF c = "L" THEN "l" ELSE IF c = "P" THEN "p" ELSE c

\* The words of a text: its maximal runs of characters that are no
\* separator, in lower case.
RECURSIVE C17_Words(_)
C17_Words(s) ==
  IF s = <<>> THEN <<>>
  ELSE IF C17_Separator(s[1]) THEN C17_Words(Tail(s))
  ELSE LET ends == {j \in 1..Len(s) : \A i \in 1..j : ~C17_Separator(s[i])}
           k == CHOOSE j \in ends : \A i \in ends : i <= j
       IN <<[i \in 1..k |-> C17_Fold(s[i])]>> \o C17_Words(SubSeq(s, k + 1, Len(s)))

\* The words with one space between neighbours.
RECURSIVE C17_Join(_)
C17_Join(ws) ==
  IF ws = <<>> THEN <<>>
  ELSE IF Len(ws) = 1 THEN ws[1]
  ELSE (ws[1] \o <<" ">>) \o C17_Join(Tail(ws))

\* C17: the normalized text has no upper-case letter, hyphen, underscore,
\* tab, doubled space, leading or trailing space: it is the words of the
\* input in lower case with exactly one space between neighbours (the empty
\* text for the empty input); query and catalog name go through the same
\* normalization, so that the answer is found exactly when one of the two
\* word texts is a contiguous part of the other.
C17_NormalForm ==
  \A g \in ImgSlots :
    Answered(g) =>
      /\ \A x \in TextsOf(g) :
           LET n == Normalize(x)
           IN /\ \A i \in 1..Len(n) : n[i] \notin {"A", "B", "L", "P", "-", "_", "\t"}
              /\ \A i \in 1..(Len(n) - 1) : ~(n[i] = " " /\ n[i + 1] = " ")
              /\ n # <<>> => (n[1] # " " /\ n[Len(n)] # " ")
              /\ n = C17_Join(C17_Words(x))
              /\ x = <<>> => n = <<>>
      /\ LET q == C17_Join(C17_Words(img[g].query))
             name == C17_Join(C17_Words(exerciseDatabase.val[1].name))
         IN img[g].out.found <=> (IsSubstring(q, name) \/ IsSubstring(name, q))

C17_Witness ==
  /\ Answered("g1")
  /\ img["g1"].query = <<"l", "e", "g", "-", "_", "p", "r", "e", "s", "s">>
  /\ Normalize(img["g1"].query) = <<"l", "e", "g", " ", "p", "r", "e", "s", "s">>
  /\ exerciseDatabase.val[1].name = <<"L", "e", "g", " ", "P", "r", "e", "s", "s">>
  /\ img["g1"].out.found

\* A step in which the UPDATE of an update or toggle request changes the row
\* with that id.
WriteOf(id) ==
  \E r \in Slots :
    /\ req[r].id = id /\ req[r].kind \in {"toggle", "update"}
    /\ req[r].pc = req[r].kind
    /\ req'[r].pc = "reread" /\ req'[r].changes = 1

\* C19: a record is created with last_updated null; a successful update or
\* toggle of it leaves last_updated non-null; no other step (create, read,
\* search, delete, failed or 404 request) changes a record's last_updated.
C19_LastUpdated ==
  [][\A id \in Ids :
       /\ (id \notin DOMAIN store /\ id \in DOMAIN store')
            => store'[id].last_updated = NULL
       /\ (id \in DOMAIN store /\ id \in DOMAIN store')
            => /\ WriteOf(id) => store'[id].last_updated # NULL
               /\ ~WriteOf(id) => store'[id].last_updated = store[id].last_updated
               /\ store[id].last_updated # NULL => store'[id].last_updated # NULL]_vars

\* A toggle has written record 1; a record created after it is still unwritten.
C19_Witness ==
  /\ DOMAIN store = {1, 2}
  /\ store[1].last_updated # NULL
  /\ store[2].last_updated = NULL
  /\ \E r \in Slots : req[r].kind = "toggle" /\ req[r].pc = "done" /\ req[r].status = 200

\* C20: a stored record keeps its id and its created_timestamp through every
\* step (an update whose body carries id and created_timestamp, a toggle,
\* the migration); the ids of the table change only by an insert, which
\* gives the new record the store's next id, larger than every id given
\* before, or by a delete, which removes the id of its request.
C20_IdAndCreationFixed ==
  /\ [](\A id \in DOMAIN store : id < nextId)
  /\ [][/\ nextId' >= nextId
        /\ \A id \in DOMAIN store \cap DOMAIN store' :
             store'[id].created_timestamp = store[id].created_timestamp
        /\ \A id \in DOMAIN store' \ DOMAIN store :
             /\ id = nextId /\ nextId' = nextId + 1
             /\ \E r \in Slots : At(r, "create", "insert") /\ req'[r].id = id
        /\ \A id \in DOMAIN store \ DOMAIN store' :
             \E r \in Slots : At(r, "delete", "delete") /\ req[r].id = id]_vars

\* An update with id and created_timestamp in its body was answered 200,
\* record 1 was deleted afterwards, and the record created then has id 2.
C20_Witness ==
  /\ DOMAIN store = {2}
  /\ \E r \in Slots :
       /\ req[r].kind = "update" /\ req[r].pc = "done" /\ req[r].status = 200
       /\ req[r].body = ForgedBody
       /\ req[r].out[1].muscle = "m2"

\* C21: every step of a toggle request leaves the ids of the table, every
\* other record, and on its own record every column but is_favorited and
\* last_updated as they were.
C21_ToggleFrame ==
  [][\A r \in Slots :
       (req'[r] # req[r] /\ (req[r].kind = "toggle" \/ req'[r].kind = "toggle"))
         => /\ DOMAIN store' = DOMAIN store
            /\ \A i \in DOMAIN store :
                 \A c \in Columns :
                   (i # req'[r].id \/ c \notin {"is_favorited", "last_updated"})
                     => store'[i][c] = store[i][c]]_vars

\* Record 2 toggled on next to an untouched record 1.
C21_Witness ==
  /\ DOMAIN store = {1, 2}
  /\ store[1].is_favorited = 0 /\ store[1].last_updated = NULL
  /\ store[2].is_favorited = 1 /\ store[2].last_updated # NULL
  /\ \E r \in Slots :
       /\ req[r].kind = "toggle" /\ req[r].id = 2
       /\ req[r].pc = "done" /\ req[r].status = 200

C22_AllowList ==
  {"exercise_name", "exercise_type", "muscle", "equipment", "difficulty",
   "instructions", "is_favorited"}

\* The value an update leaves in column c for the body's value v.
C22_Written(c, v) ==
  IF c = "is_favorited" THEN (IF v \in {JsFalse, UNDEF, NULL, ""} THEN 0 ELSE 1) ELSE v

C23_On404Path(q) ==
  \/ q.pc = "close404"
  \/ q.pc = "closedel" /\ q.changes = 0
  \/ q.pc = "closeget" /\ q.row = NoRow

C23_Kinds == {"get", "update", "toggle", "delete"}

\* The delete steps: a delete of a stored id removes that record and no
\* other, a delete of an id that is not stored changes nothing, and an id
\* once given and removed is never stored again.
C23_DeleteStep ==
  /\ \A r \in Slots :
       (req'[r] # req[r] /\ (req[r].kind = "delete" \/ req'[r].kind = "delete"))
         => LET id == req'[r].id
                removed == req[r].pc = "delete" /\ req'[r].pc = "closedel"
                             /\ id \in DOMAIN store
            IN /\ removed => store' = [i \in DOMAIN store \ {id} |-> store[i]]
               /\ ~removed => store' = store
  /\ \A id \in Ids : (id < nextId /\ id \notin DOMAIN store) => id \notin DOMAIN store'
  /\ \A r \in Slots :
       (req'[r] # req[r] /\ C23_On404Path(req[r]))
         => (req'[r].pc = "done" /\ req'[r].status = 404)

\* C23 as stated: whenever a get, update, toggle or delete request for an
\* id that was removed (for a delete: any id that is not stored) gets the
\* result of its store call, no statement having failed, the request goes on
\* to the answer 404.
C23_AbsentIdIs404 ==
  [][/\ C23_DeleteStep
     /\ \A r \in Slots :
          (/\ req'[r] # req[r]
           /\ req[r].kind \in C23_Kinds /\ req[r].pc = req[r].kind
           /\ req[r].id \notin DOMAIN store
           /\ (req[r].id < nextId \/ req[r].kind = "delete")
           /\ ~(req'[r].err /\ ~(req[r].kind = "update" /\ UpdateFields(req[r].body) = {})))
            => C23_On404Path(req'[r])]_vars

\* C23 amended: the same, but for an update whose body has no allow-listed
\* key, which goes to the error answer whether or not its id is stored.
C23_AbsentIdIs404UnlessNoField ==
  [][/\ C23_DeleteStep
     /\ \A r \in Slots :
          (/\ req'[r] # req[r]
           /\ req[r].kind \in C23_Kinds /\ req[r].pc = req[r].kind
           /\ req[r].id \notin DOMAIN store)
            => IF req[r].kind = "update" /\ DOMAIN req[r].body \cap C22_AllowList = {}
               THEN req'[r].pc = "catch"
               ELSE req'[r].err \/ C23_On404Path(req'[r])]_vars

\* Record 1 is gone and record 2 is there; a get of id 1 was answered 404
\* and an update of id 1 with an empty body 500.
C23_Witness ==
  /\ DOMAIN store = {2}
  /\ req["r1"].kind = "get" /\ req["r1"].id = 1
  /\ req["r1"].pc = "done" /\ req["r1"].status = 404
  /\ req["r2"].kind = "update" /\ req["r2"].id = 1 /\ req["r2"].body = NoBody
  /\ req["r2"].pc = "done" /\ req["r2"].status = 500

\* The stored records whose is_favorited is 1.
C24_Favorites == {i \in DOMAIN store : store[i].is_favorited = 1}

\* Name x does not sort after name y (upper case sorts before lower case).
C24_NotAfter(x, y) == x = y \/ (x = "A" /\ y = "a")

\* C24: the favorites query returns the stored records with is_favorited =
\* 1, each once, in name order, and the answer reports each of them with
\* is_favorited true; get-by-id reports is_favorited true exactly for the
\* records of that set; the favorites count of the stats endpoint is the
\* size of that set (each relative to the store its query reads, which is
\* the store that the completed requests before it have left).
C24_FavoritesAgree ==
  [][\A r \in Slots :
       /\ (At(r, "favorites", "favorites") /\ req'[r].pc = "closefavorites")
            => LET rows == req'[r].row[1]
               IN /\ Len(rows) = Cardinality(C24_Favorites)
                  /\ {rows[k].id : k \in 1..Len(rows)} = C24_Favorites
                  /\ \A k \in 1..(Len(rows) - 1) :
                       C24_NotAfter(rows[k].exercise_name, rows[k + 1].exercise_name)
       /\ (At(r, "favorites", "closefavorites") /\ req'[r].pc = "done")
            => LET rows == req[r].row[1]
                   out == req'[r].out[1]
               IN /\ req'[r].status = 200 /\ Len(out) = Len(rows)
                  /\ \A k \in 1..Len(rows) :
                       /\ out[k].id = rows[k].id /\ out[k].name = rows[k].exercise_name
                       /\ out[k].is_favorited = TRUE
       /\ (At(r, "get", "get") /\ req'[r].pc = "closeget")
            => (req'[r].row # NoRow <=> req[r].id \in DOMAIN store)
       /\ (At(r, "get", "get") /\ req'[r].pc = "closeget" /\ req[r].id \in DOMAIN store)
            => (req'[r].row[1].is_favorited = 1 <=> req[r].id \in C24_Favorites)
       /\ (At(r, "get", "closeget") /\ req'[r].pc = "done" /\ req[r].row # NoRow)
            => /\ req'[r].status = 200
               /\ req'[r].out[1].is_favorited = (req[r].row[1].is_favorited = 1)
       /\ (At(r, "stats", "favcount") /\ req'[r].pc = "muscle")
            => req'[r].row[1].favorites = Cardinality(C24_Favorites)
       /\ (At(r, "stats", "closestats") /\ req'[r].pc = "done")
            => /\ req'[r].status = 200
               /\ req'[r].out[1].favorites = req[r].row[1].favorites]_vars

\* Both records are favourites, the one created second sorts first; the
\* favorites answer lists them in name order and the stats answer counts 2.
C24_Witness ==
  /\ DOMAIN store = {1, 2}
  /\ store[1].exercise_name = "a" /\ store[2].exercise_name = "A"
  /\ C24_Favorites = {1, 2}
  /\ req["r1"].kind = "favorites" /\ req["r1"].pc = "done"
  /\ Len(req["r1"].out[1]) = 2
  /\ req["r1"].out[1][1].id = 2 /\ req["r1"].out[1][2].id = 1
  /\ req["r2"].kind = "stats" /\ req["r2"].pc = "done"
  /\ req["r2"].out[1].favorites = 2 /\ req["r2"].out[1].total = 2

(* ---------------------------------- C27 --------------------------------- *)

\* The number the claim says a write of is_favorited stores for a JS value.
C27_Bit(v) == IF v = JsTrue THEN 1 ELSE 0

\* C27: after every step every stored record's is_favorited is 0 or 1; the
\* INSERT of a create writes 0 unless the body's is_favorited is truthy (then
\* 1), an UPDATE that sets is_favorited writes 0 or 1 by the truthiness of the
\* value given, and a toggle turns 1 into 0 and every other value into 1.
C27_FavoritedIsBit ==
  [][/\ \A i \in DOMAIN store' : store'[i].is_favorited \in {0, 1}
     /\ \A r \in Slots :
          /\ (At(r, "create", "insert") /\ req'[r].pc = "close201")
               => store'[req'[r].id].is_favorited = C27_Bit(req[r].body.is_favorited)
          /\ (At(r, "update", "update") /\ req'[r].changes = 1
                /\ "is_favorited" \in DOMAIN req[r].body)
               => store'[req[r].id].is_favorited = C27_Bit(req[r].body.is_favorited)
          /\ (At(r, "toggle", "toggle") /\ req'[r].changes = 1)
               => store'[req[r].id].is_favorited
                    = (IF store[req[r].id].is_favorited = 1 THEN 0 ELSE 1)]_vars

\* A record created with a truthy is_favorited reads 1 while a second one,
\* created without it and then set by an update carrying false, reads 0.
C27_Witness ==
  /\ DOMAIN store = {1, 2}
  /\ store[1].is_favorited = 1 /\ store[1].last_updated = NULL
  /\ store[2].is_favorited = 0 /\ store[2].last_updated = TS
  /\ req["r2"].kind = "update" /\ req["r2"].pc = "done" /\ req["r2"].id = 2
  /\ req["r2"].body = [is_favorited |-> JsFalse] /\ req["r2"].status = 200

(* ---------------------------------- C28 --------------------------------- *)

\* A text made of hyphens, underscores and whitespace only (the empty text
\* included): its normalized form is the empty string.
C28_OnlySeparators(t) == \A k \in 1..Len(t) : t[k] \in {"-", "_", " ", "\t"}

\* The answer of lookup g is the one entry m of the list gives.
C28_AnswerOf(g, list, m) ==
  /\ img[g].out.found = HasImages(list[m])
  /\ img[g].out.found =>
       /\ Len(img[g].out.images) = Len(list[m].images)
       /\ \A k \in 1..Len(list[m].images) :
            img[g].out.images[k] = ImageUrl(list[m].images[k])
  /\ ~img[g].out.found => img[g].out = NotFoundBody

\* C28: a query made of separators only is a candidate for every entry, so
\* against a non-empty catalog the answer is the one the first entry gives
\* (found with its images, or not found when it has none); and an entry whose
\* name is made of separators only is a candidate for every query, so it
\* gives the answer whenever no entry before it is a candidate.
C28_EmptyNormalizedMatchesAll ==
  \A g \in ImgSlots :
    Answered(g) =>
      LET list == exerciseDatabase.val
          q == img[g].query
      IN /\ (C28_OnlySeparators(q) /\ Len(list) > 0)
              => /\ \A i \in 1..Len(list) : Candidate(list[i], q)
                 /\ C28_AnswerOf(g, list, 1)
         /\ \A i \in 1..Len(list) :
              C28_OnlySeparators(list[i].name)
                => /\ Candidate(list[i], q)
                   /\ (\A j \in 1..(i - 1) : ~Candidate(list[j], q))
                        => C28_AnswerOf(g, list, i)

\* Against the catalog whose second entry is named "-": the query "_" gets
\* the images of the first entry, the query "c", which the first entry's name
\* does not contain, gets those of the second.
C28_Witness ==
  /\ exerciseDatabase = ListData(MatchCatalog3)
  /\ img["g1"].pc = "done" /\ img["g1"].query = <<"_">>
  /\ img["g1"].out.found /\ img["g1"].out.images = <<ImageUrl("AB/0.jpg")>>
  /\ img["g2"].pc = "done" /\ img["g2"].query = <<"c">>
  /\ img["g2"].out.found /\ img["g2"].out.images = <<ImageUrl("Dash/0.jpg")>>

(* ---------------------------------- C25 --------------------------------- *)

\* C25: a run of the migration (the one step of these runs that is no
\* request's) ends in one of its two resolving branches: on a table without
\* the column it adds it, every row keeps its other values and reads
\* is_favorited = 0; on a table with the column, a second or later run
\* included, no row changes, whatever toggles and updates have written.
C25_MigrationAddsOnce ==
  [][(req' = req) =>
       /\ hasFavorited'
       /\ migration' = (IF hasFavorited THEN "exists" ELSE "added")
       /\ nextId' = nextId
       /\ DOMAIN store' = DOMAIN store
       /\ \A i \in DOMAIN store :
            /\ DOMAIN store'[i] = Columns
            /\ \A c \in DOMAIN store[i] : store'[i][c] = store[i][c]
            /\ "is_favorited" \notin DOMAIN store[i] => store'[i].is_favorited = 0
       /\ (hasFavorited \/ migration # "none") => store' = store]_vars

\* The table from before the column, migrated at two server starts: the
\* record a toggle has set reads 1, the one never written reads 0.
C25_Witness ==
  /\ DOMAIN store = {1, 2} /\ migration = "exists"
  /\ store[1].is_favorited = 1 /\ store[1].last_updated = TS
  /\ store[2].is_favorited = 0 /\ store[2].last_updated = NULL
  /\ \A r \in Slots : req[r].pc = "idle"

(* ---------------------------------- C26 --------------------------------- *)

\* The stored records named n.
C26_Named(s, n) == {i \in DOMAIN s : s[i].exercise_name = n}

\* The places of the items named n in a list.
C26_Places(list, n) == {k \in 1..Len(list) : list[k].name = n}

\* Every name of the fetched list is the name of a stored record.
C26_AllHeld(s, list) == \A k \in 1..Len(list) : C26_Named(s, list[k].name) # {}

C29_Ceil(n) == CHOOSE m \in 0..n : m * 10 >= n /\ (m - 1) * 10 < n

\* displayCurrentPage was the last to write the list element.
C29_ListDisplayed ==
  page.exercisesEl.cards # {} \/ page.exercisesEl.message = "No exercises found"

\* C29: currentPage is at least 1, and whenever the list is displayed with a
\* non-empty allExercises, currentPage is at most ceil(length / 10), so that
\* the page displayed has at least one exercise on it.
C29_CurrentPageInRange ==
  /\ page.currentPage >= 1
  /\ (C29_ListDisplayed /\ Len(page.allExercises) > 0)
       => /\ page.currentPage <= C29_Ceil(Len(page.allExercises))
          /\ page.exercisesEl.cards # {}

\* The case the claim names: on page 2 of the favorites tab the one favourite
\* of that page has been removed, and the refreshed list of ten is shown.
C29_UnfavoritedOnLastPage ==
  /\ page.currentTab = "favorites" /\ page.currentPage = 2
  /\ Len(page.allExercises) = 10
  /\ page.exercisesEl.message = "No exercises found"
  /\ 11 \in DOMAIN store /\ store[11].is_favorited = 0
  /\ \A p \in PageSlots : page.inflight[p].stage = "idle"

(* ---------------------------------- C30 --------------------------------- *)

C30_Ids(list) == [k \in 1..Len(list) |-> list[k].id]

\* The list the server holds for the view the page is in.
C30_ListOfView ==
  IF page.currentTab = "favorites" THEN FavoritesAnswer(store)
  ELSE IF page.isSearchMode THEN SearchAnswer(store, page.currentSearchQuery)
  ELSE BrowseAnswer(store)

\* C30: whenever no request is in flight, allExercises holds the exercises of
\* the current view: the favourites on the favorites tab, the result of the
\* search for currentSearchQuery on the all tab in search mode, the browse
\* list on the all tab otherwise.
C30_ListBelongsToView ==
  (\A p \in PageSlots : page.inflight[p].stage = "idle")
    => C30_Ids(page.allExercises) = C30_Ids(C30_ListOfView)

====
